---------------------------- MODULE Spec2Model ----------------------------
(***************************************************************************)
(* A model of django-vimage: the VIMAGE setting is checked                 *)
(* (vimage/core/checker.py), every entry's key and value is validated      *)
(* (vimage/core/base.py, vimage/core/validator_types.py), the registry of  *)
(* validators is built and the validators are attached to the ImageFields  *)
(* (VimageConfig.add_validators).                                          *)
(***************************************************************************)
EXTENDS Integers, Sequences, FiniteSets, TLC

VARIABLES
    settings,        \* the VIMAGE setting: [defined, type, items]
    pc,              \* position of VimageConfig.ready (apps.py)
    idx,             \* next entry of config.items() / next field of registry.items()
    exc,             \* the exception that ended ready(), if any: [exc, msg]
    raised_in,       \* the function the exception came out of
    validated,       \* config positions whose entry was constructed and validated
    info,            \* result of build_info / sort_info
    draft_registry,  \* result of build_draft_registry
    registry,        \* result of build_registry
    validators,      \* field -> the field's "validators" list
    vkey,            \* a VimageKey under test
    key_result,      \* results of the operations called on vkey
    calls,           \* number of get_specificity/get_fields rounds made on vkey
    vrule,           \* a validation rule under test: [name, rule]
    rule_result,     \* result of is_valid on vrule
    ventry,          \* a VimageEntry under test: [key, value]
    entry_result,    \* results of the operations called on ventry
    image,           \* the image a validator is called on
    outcome,         \* what the call of the validator gave: [raised, message]
    frames           \* thread -> the frame of the validator call it is in

entry_vars == <<ventry, entry_result>>

invoke_vars == <<image, outcome, frames>>

vars == <<settings, pc, idx, exc, raised_in, validated, info, draft_registry,
          registry, validators, vkey, key_result, calls, vrule, rule_result,
          entry_vars, invoke_vars>>

(***************************************************************************)
(* Bounds of the model.                                                    *)
(***************************************************************************)
MaxEntries == 2

MaxMergeEntries == 3

MaxKeyWords == 5

MaxRuleKeys == 2

MaxCalls == 2

(***************************************************************************)
(* Python values.  Every value is a record of the same shape: t is the     *)
(* type name, i the number of an int or float (a float counts hundredths), *)
(* s the text of a str, l the elements of a tuple or list or the values of *)
(* a dict, ks the keys of a dict, in insertion order.                      *)
(***************************************************************************)
PyInt(n) == [t |-> "int", i |-> n, s |-> "", ks |-> <<>>, l |-> <<>>]

PyFloat(h) == [t |-> "float", i |-> h, s |-> "", ks |-> <<>>, l |-> <<>>]

PyStr(x) == [t |-> "str", i |-> 0, s |-> x, ks |-> <<>>, l |-> <<>>]

PyTuple(elems) == [t |-> "tuple", i |-> 0, s |-> "", ks |-> <<>>, l |-> elems]

PyList(elems) == [t |-> "list", i |-> 0, s |-> "", ks |-> <<>>, l |-> elems]

PyDict(keys, vals) == [t |-> "dict", i |-> 0, s |-> "", ks |-> keys, l |-> vals]

PyNone == [t |-> "NoneType", i |-> 0, s |-> "", ks |-> <<>>, l |-> <<>>]

Range(seq) == {seq[n] : n \in 1..Len(seq)}

(***************************************************************************)
(* Exceptions: the class raised and a tag naming the raise statement.      *)
(***************************************************************************)
NoError == [exc |-> "none", msg |-> ""]

Raise(e, m) == [exc |-> e, msg |-> m]

(***************************************************************************)
(* The application registry of the host (django.apps.apps), as the test    *)
(* project declares it.                                                    *)
(***************************************************************************)
MODELS_MODULE_NAME == "models"

InstalledApps == {"myapp", "myapp2", "no_model"}

HasModelsModule(app) == app # "no_model"

\* app_config.get_models(): the model classes of an app, in declaration order
AppModels(app) ==
    CASE app = "myapp"  -> <<"MyModel", "AnotherModel", "GreatModel">>
      [] app = "myapp2" -> <<"Hello">>
      [] OTHER          -> <<>>

\* model._meta.get_fields(): [name, image], in declaration order
ModelFields(app, model) ==
    CASE app = "myapp" /\ model = "MyModel" ->
            << [name |-> "heading", image |-> FALSE],
               [name |-> "img", image |-> TRUE],
               [name |-> "number", image |-> FALSE] >>
      [] app = "myapp" /\ model = "AnotherModel" ->
            << [name |-> "title", image |-> FALSE],
               [name |-> "thumb", image |-> TRUE],
               [name |-> "image", image |-> TRUE] >>
      [] app = "myapp" /\ model = "GreatModel" ->
            << [name |-> "name", image |-> FALSE],
               [name |-> "picture", image |-> TRUE],
               [name |-> "large_img", image |-> TRUE] >>
      [] app = "myapp2" /\ model = "Hello" ->
            << [name |-> "img", image |-> TRUE] >>
      [] OTHER -> <<>>

\* a field object is identified by the model that owns it and its name
Field(app, model, name) == [app |-> app, model |-> model, name |-> name]

RECURSIVE ImageFieldsFrom(_, _, _)
ImageFieldsFrom(app, model, fs) ==
    IF fs = <<>> THEN <<>>
    ELSE (IF Head(fs).image THEN <<Field(app, model, Head(fs).name)>> ELSE <<>>)
         \o ImageFieldsFrom(app, model, Tail(fs))

\* [field for field in model._meta.get_fields() if isinstance(field, ImageField)]
ModelImageFields(app, model) == ImageFieldsFrom(app, model, ModelFields(app, model))

RECURSIVE ImageFieldsOfModels(_, _)
ImageFieldsOfModels(app, models) ==
    IF models = <<>> THEN <<>>
    ELSE ModelImageFields(app, Head(models)) \o ImageFieldsOfModels(app, Tail(models))

AllImageFields ==
    UNION {Range(ImageFieldsOfModels(app, AppModels(app))) : app \in InstalledApps}

(***************************************************************************)
(* VimageKey.  A str key is the sequence of its tokens: a "." or a         *)
(* non-empty run of other characters.                                      *)
(***************************************************************************)
StrKey(toks) == [isstr |-> TRUE, toks |-> toks]

NonStrKey == [isstr |-> FALSE, toks |-> <<>>]

RECURSIVE SplitFrom(_, _, _)
SplitFrom(toks, cur, acc) ==
    IF toks = <<>> THEN Append(acc, cur)
    ELSE IF Head(toks) = "." THEN SplitFrom(Tail(toks), "", Append(acc, cur))
    ELSE SplitFrom(Tail(toks), cur \o Head(toks), acc)

\* self.key.split('.')
split_key(key) == SplitFrom(key.toks, "", <<>>)

RECURSIVE JoinWords(_)
JoinWords(words) ==
    IF words = <<>> THEN <<>>
    ELSE (IF Head(words) = "" THEN <<>> ELSE <<Head(words)>>)
         \o (IF Len(words) > 1 THEN <<".">> \o JoinWords(Tail(words)) ELSE <<>>)

\* '.'.join(words)
KeyOf(words) == StrKey(JoinWords(words))

\* str.isidentifier() and keyword.iskeyword() on the words the model uses
NonIdentifiers == {"", "9img"}

Keywords == {"class"}

isidentifier(word) == word \notin NonIdentifiers

iskeyword(word) == word \in Keywords

models_in_key(keywords) == Len(keywords) > 1 /\ keywords[2] = MODELS_MODULE_NAME

valid_key_length(keywords) == Len(keywords) \in 2..4

key_non_empty_str(key) == key.isstr /\ key.toks # <<>>

key_valid_dotted_format(key) ==
    \A n \in 1..Len(split_key(key)) :
        isidentifier(split_key(key)[n]) /\ ~iskeyword(split_key(key)[n])

\* the names of the image fields the 4-word check accepts
image_field_names(app, model_name) ==
    {f.name : f \in Range(ImageFieldsOfModels(app, AppModels(app)))}

\* a variant that looks at the second word before the number of words
validate_dotted_key_module_first(key) ==
    LET keywords == split_key(key)
        app_label == keywords[1]
    IN  IF ~models_in_key(keywords)
            THEN Raise("InvalidKeyError", "second_word")
        ELSE IF ~valid_key_length(keywords)
            THEN Raise("InvalidKeyError", "key_length")
        ELSE IF app_label \notin InstalledApps
            THEN Raise("InvalidKeyError", "no_app")
        ELSE IF ~HasModelsModule(app_label)
            THEN Raise("InvalidKeyError", "no_models_module")
        ELSE IF Len(keywords) = 2
            THEN NoError
        ELSE IF keywords[3] \notin Range(AppModels(app_label))
            THEN Raise("InvalidKeyError", "no_model")
        ELSE IF Len(keywords) = 4
                /\ keywords[4] \notin image_field_names(app_label, keywords[3])
            THEN Raise("InvalidKeyError", "no_field")
        ELSE NoError

validate_dotted_key(key) ==
    LET keywords == split_key(key)
        app_label == keywords[1]
    IN  IF ~valid_key_length(keywords)
            THEN Raise("InvalidKeyError", "key_length")
        ELSE IF ~models_in_key(keywords)
            THEN Raise("InvalidKeyError", "second_word")
        ELSE IF app_label \notin InstalledApps
            THEN Raise("InvalidKeyError", "no_app")
        ELSE IF ~HasModelsModule(app_label)
            THEN Raise("InvalidKeyError", "no_models_module")
        ELSE IF Len(keywords) = 2
            THEN NoError
        ELSE IF keywords[3] \notin Range(AppModels(app_label))
            THEN Raise("InvalidKeyError", "no_model")
        ELSE IF Len(keywords) = 4
                /\ keywords[4] \notin image_field_names(app_label, keywords[3])
            THEN Raise("InvalidKeyError", "no_field")
        ELSE NoError

validate_key(key) ==
    IF ~key_valid_dotted_format(key)
        THEN Raise("InvalidKeyError", "dotted_path")
    ELSE validate_dotted_key(key)

\* VimageKey.is_valid
key_is_valid(key) ==
    IF ~key_non_empty_str(key)
        THEN Raise("InvalidKeyError", "non_empty_str")
    ELSE validate_key(key)

\* VimageKey.__init__
VimageKey_init(key) ==
    IF ~key.isstr THEN Raise("TypeError", "key_not_str") ELSE NoError

\* a variant without the test of the number of words
get_specificity_unchecked(key) == Len(split_key(key)) - 1

get_specificity(key) ==
    IF Len(split_key(key)) \notin 2..4 THEN 0 ELSE Len(split_key(key)) - 1

get_app_label(key) == split_key(key)[1]

\* results of the get_* operations: [exc, fields]
Fields(fs) == [exc |-> "none", fields |-> fs]

FieldsError(e) == [exc |-> e, fields |-> <<>>]

get_app_img_fields(key) ==
    LET app == split_key(key)[1]
    IN  IF app \notin InstalledApps THEN FieldsError("LookupError")
        ELSE Fields(ImageFieldsOfModels(app, AppModels(app)))

get_specific_model_img_fields(key) ==
    LET keywords == split_key(key)
        app == keywords[1]
        model == keywords[Len(keywords)]
    IN  IF app \notin InstalledApps \/ model \notin Range(AppModels(app))
            THEN FieldsError("LookupError")
        ELSE Fields(ModelImageFields(app, model))

get_img_field(key) ==
    LET keywords == split_key(key)
        app == keywords[1]
        model == keywords[Len(keywords) - 1]
        name == keywords[Len(keywords)]
    IN  IF app \notin InstalledApps \/ model \notin Range(AppModels(app))
            THEN FieldsError("LookupError")
        ELSE IF name \notin {f.name : f \in Range(ModelFields(app, model))}
            THEN FieldsError("FieldDoesNotExist")
        ELSE Fields(<<Field(app, model, name)>>)

get_fields(key) ==
    LET specificity == get_specificity(key)
    IN  IF specificity # 0
        THEN IF specificity = 1 THEN get_app_img_fields(key)
             ELSE IF specificity = 2 THEN get_specific_model_img_fields(key)
             ELSE get_img_field(key)
        ELSE Fields(<<>>)

(***************************************************************************)
(* const.py                                                                *)
(***************************************************************************)
type_size == "SIZE"

type_dimensions == "DIMENSIONS"

type_format == "FORMAT"

type_aspect_ratio == "ASPECT_RATIO"

valid_types_strings == <<type_size, type_dimensions, type_format, type_aspect_ratio>>

err == "err"

width_height_operators == {"w", "h"}

valid_operators_strings == <<"lt", "lte", "gt", "gte", "ne", "eq">>

allowable_web_image_extensions == <<"jpeg", "png", "gif", "bmp", "webp">>

\* a variant of the list without the pair of ne and eq
nonsense_operators_list_short ==
    << {"lt", "lte"}, {"gt", "gte"}, {"lt", "eq"}, {"gt", "eq"},
       {"lte", "eq"}, {"gte", "eq"} >>

nonsense_operators_list ==
    << {"lt", "lte"}, {"gt", "gte"}, {"lt", "eq"}, {"gt", "eq"},
       {"lte", "eq"}, {"gte", "eq"}, {"ne", "eq"} >>

nonsense_values_together == << {type_dimensions, type_aspect_ratio} >>

\* str.lower() on the format strings the model uses
Lower(x) ==
    CASE x = "PNG"  -> "png"
      [] x = "JPEG" -> "jpeg"
      [] x = "Gif"  -> "gif"
      [] OTHER      -> x

(***************************************************************************)
(* ValidationRuleBase (validator_types.py).  A rule is [name, rule]: the   *)
(* rule kind and its payload.                                              *)
(***************************************************************************)
InvalidValue(m) == Raise("InvalidValueError", m)

positive_num(x) == x.i > 0

positive_elements(iterable) ==
    IF iterable # <<>>
    THEN \A n \in 1..Len(iterable) :
            iterable[n].t = "int" /\ positive_num(iterable[n])
    ELSE FALSE

positive_two_len_tuple(v) ==
    IF v.t = "tuple" THEN Len(v.l) = 2 /\ positive_elements(v.l) ELSE FALSE

positive_list(ls) ==
    IF ls.t = "list" /\ ls.l # <<>>
    THEN \A n \in 1..Len(ls.l) : positive_two_len_tuple(ls.l[n])
    ELSE FALSE

only_err_key(keys) ==
    IF Len(keys) = 1 /\ keys[1] = err THEN InvalidValue("only_err_key") ELSE NoError

nonsense_operators(keys) ==
    IF \E n \in 1..Len(nonsense_operators_list) :
            nonsense_operators_list[n] \subseteq Range(keys)
    THEN InvalidValue("nonsense_operators")
    ELSE NoError

RECURSIVE ValidStrKeysFrom(_, _)
ValidStrKeysFrom(keys, n) ==
    IF n > Len(keys) THEN NoError
    ELSE IF keys[n] \notin {"eq", "ne", err} THEN InvalidValue("invalid_str_key")
    ELSE ValidStrKeysFrom(keys, n + 1)

valid_dict_rule_str(rule) ==
    IF Len(rule.ks) > 2 THEN InvalidValue("too_many_keys")
    ELSE IF only_err_key(rule.ks) # NoError THEN only_err_key(rule.ks)
    ELSE IF nonsense_operators(rule.ks) # NoError THEN nonsense_operators(rule.ks)
    ELSE ValidStrKeysFrom(rule.ks, 1)

\* the loop of validate_operators over d.items(), from item n on
RECURSIVE OperatorItemsFrom(_, _, _)
OperatorItemsFrom(d, valid_value_type, n) ==
    IF n > Len(d.ks) THEN NoError
    ELSE IF d.ks[n] = err THEN OperatorItemsFrom(d, valid_value_type, n + 1)
    ELSE IF d.ks[n] \notin Range(valid_operators_strings)
        THEN InvalidValue("invalid_operator_key")
    ELSE IF d.l[n].t # valid_value_type
        THEN InvalidValue("operand_type")
    ELSE IF d.l[n].t = "int" /\ ~positive_num(d.l[n])
        THEN InvalidValue("operand_not_positive")
    ELSE IF d.l[n].t = "tuple" /\ ~positive_two_len_tuple(d.l[n])
        THEN InvalidValue("operand_tuple")
    ELSE OperatorItemsFrom(d, valid_value_type, n + 1)

\* self.validate_operators(d, valid_value_type), self.rule being rule
validate_operators(rule, d, valid_value_type) ==
    IF only_err_key(rule.ks) # NoError THEN only_err_key(rule.ks)
    ELSE IF nonsense_operators(rule.ks) # NoError THEN nonsense_operators(rule.ks)
    ELSE IF d.t # "dict" THEN Raise("AttributeError", "items")
    ELSE OperatorItemsFrom(d, valid_value_type, 1)

(***************************************************************************)
(* ValidationRuleSize                                                      *)
(***************************************************************************)
size_is_valid(rule) ==
    IF rule.t \notin {"int", "dict"} THEN InvalidValue("size_type")
    ELSE IF rule.t = "int" /\ ~positive_num(rule) THEN InvalidValue("size_not_positive")
    ELSE IF rule.t = "dict"
        THEN IF rule.ks = <<>> THEN InvalidValue("empty_dict")
             ELSE validate_operators(rule, rule, "int")
    ELSE NoError

(***************************************************************************)
(* ValidationRuleDimensions                                                *)
(***************************************************************************)
has_width_height_keys(rule) ==
    IF Range(rule.ks) = {} THEN FALSE
    ELSE Range(rule.ks) \subseteq width_height_operators

\* the loop of valid_dict_rule over the w/h items, from item n on
RECURSIVE WidthHeightItemsFrom(_, _)
WidthHeightItemsFrom(rule, n) ==
    IF n > Len(rule.ks) THEN NoError
    ELSE IF validate_operators(rule, rule.l[n], "int") # NoError
        THEN validate_operators(rule, rule.l[n], "int")
    ELSE WidthHeightItemsFrom(rule, n + 1)

dimensions_valid_dict_rule(rule) ==
    IF has_width_height_keys(rule) THEN WidthHeightItemsFrom(rule, 1)
    ELSE validate_operators(rule, rule, "tuple")

dimensions_is_valid(rule) ==
    IF rule.t \notin {"tuple", "list", "dict"} THEN InvalidValue("dimensions_type")
    ELSE IF rule.t = "tuple" /\ ~positive_two_len_tuple(rule)
        THEN InvalidValue("dimensions_tuple")
    ELSE IF rule.t = "list" /\ ~positive_list(rule)
        THEN InvalidValue("dimensions_list")
    ELSE IF rule.t = "dict"
        THEN IF rule.ks = <<>> THEN InvalidValue("empty_dict")
             ELSE dimensions_valid_dict_rule(rule)
    ELSE NoError

(***************************************************************************)
(* ValidationRuleFormat                                                    *)
(***************************************************************************)
valid_format(format_str) ==
    IF format_str.t = "str"
    THEN Lower(format_str.s) \in Range(allowable_web_image_extensions)
    ELSE FALSE

valid_format_list(list_formats) ==
    IF list_formats # <<>>
    THEN \A n \in 1..Len(list_formats) : valid_format(list_formats[n])
    ELSE FALSE

\* the loop of ValidationRuleFormat.valid_dict_rule over the items, from item n on
RECURSIVE FormatItemsFrom(_, _)
FormatItemsFrom(rule, n) ==
    IF n > Len(rule.ks) THEN NoError
    ELSE IF rule.ks[n] = err THEN FormatItemsFrom(rule, n + 1)
    ELSE IF rule.l[n].t \notin {"str", "list"} THEN InvalidValue("format_operand_type")
    ELSE IF rule.l[n].t = "str" /\ ~valid_format(rule.l[n])
        THEN InvalidValue("format_operand_str")
    ELSE IF rule.l[n].t = "list" /\ ~valid_format_list(rule.l[n].l)
        THEN InvalidValue("format_operand_list")
    ELSE FormatItemsFrom(rule, n + 1)

format_valid_dict_rule(rule) ==
    IF valid_dict_rule_str(rule) # NoError THEN valid_dict_rule_str(rule)
    ELSE FormatItemsFrom(rule, 1)

format_is_valid(rule) ==
    IF rule.t \notin {"str", "list", "dict"} THEN InvalidValue("format_type")
    ELSE IF rule.t = "str" /\ ~valid_format(rule) THEN InvalidValue("format_str")
    ELSE IF rule.t = "list" /\ ~valid_format_list(rule.l) THEN InvalidValue("format_list")
    ELSE IF rule.t = "dict"
        THEN IF rule.ks = <<>> THEN InvalidValue("empty_dict")
             ELSE format_valid_dict_rule(rule)
    ELSE NoError

(***************************************************************************)
(* ValidationRuleAspectRatio                                               *)
(***************************************************************************)
aspect_ratio_is_valid(rule) ==
    IF rule.t \notin {"float", "dict"} THEN InvalidValue("aspect_ratio_type")
    ELSE IF rule.t \in {"int", "float"} /\ ~positive_num(rule)
        THEN InvalidValue("aspect_ratio_not_positive")
    ELSE IF rule.t = "dict"
        THEN IF rule.ks = <<>> THEN InvalidValue("empty_dict")
             ELSE validate_operators(rule, rule, "float")
    ELSE NoError

\* validation_rule_factory(key, value) followed by is_valid() of the instance
rule_is_valid(name, rule) ==
    CASE name = type_size         -> size_is_valid(rule)
      [] name = type_dimensions   -> dimensions_is_valid(rule)
      [] name = type_format       -> format_is_valid(rule)
      [] name = type_aspect_ratio -> aspect_ratio_is_valid(rule)
      [] OTHER                    -> InvalidValue("unknown_rule_kind")

(***************************************************************************)
(* generate_validator of the four rule kinds (validator_types.py).  An     *)
(* image is [size, width, height, format]: the bytes of the file, its      *)
(* pixels and the format PIL reports.  The outcome of a call is            *)
(* [exc, message]: exc is "none" when the call returns None.  Messages are *)
(* the strings the code builds.                                            *)
(***************************************************************************)
trans_type(name) ==
    CASE name = type_size         -> "SIZE"
      [] name = type_dimensions   -> "DIMENSIONS"
      [] name = type_format       -> "FORMAT"
      [] name = type_aspect_ratio -> "ASPECT RATIO"
      [] OTHER                    -> "MODE"

trans_wh(dimension) == IF dimension = "w" THEN "width" ELSE "height"

\* const.human_opr.get(opr), formatted into a str
human_opr(opr) ==
    CASE opr = "lt"  -> "less than"
      [] opr = "lte" -> "less than or equal to"
      [] opr = "gt"  -> "greater than"
      [] opr = "gte" -> "greater than or equal to"
      [] opr = "ne"  -> "not equal to"
      [] opr = "eq"  -> "equal to"
      [] OTHER       -> "None"

\* const.comparison_operators[str_opr](a, b)
comparison_operators(str_opr, a, b) ==
    CASE str_opr = "lt"  -> a < b
      [] str_opr = "lte" -> a <= b
      [] str_opr = "gt"  -> a > b
      [] str_opr = "gte" -> a >= b
      [] str_opr = "ne"  -> a # b
      [] str_opr = "eq"  -> a = b

\* str.upper() and str.capitalize() on the strings the model uses
Upper(x) ==
    CASE x = "png"  -> "PNG"
      [] x = "jpeg" -> "JPEG"
      [] x = "gif"  -> "GIF"
      [] OTHER      -> x

Capitalize(x) ==
    CASE x = "width"  -> "Width"
      [] x = "height" -> "Height"
      [] OTHER        -> x

\* str() of a float counted in hundredths: 133 is 1.33, 150 is 1.5, 100 is 1.0
FloatStr(h) ==
    ToString(h \div 100) \o "." \o
        (IF h % 10 = 0 THEN ToString((h % 100) \div 10)
         ELSE ToString((h % 100) \div 10) \o ToString(h % 10))

\* str() of an int, a float or a str
Str(v) ==
    CASE v.t = "int"   -> ToString(v.i)
      [] v.t = "float" -> FloatStr(v.i)
      [] OTHER         -> v.s

\* bool(v) of a str or a number
Truthy(v) == IF v.t = "str" THEN v.s # "" ELSE v.i # 0

\* sep.join(strs)
RECURSIVE Join(_, _)
Join(strs, sep) ==
    IF strs = <<>> THEN ""
    ELSE IF Len(strs) = 1 THEN strs[1]
    ELSE strs[1] \o sep \o Join(Tail(strs), sep)

\* round(width / height, 2) in hundredths, a tie going to the even hundredth
round_ratio(width, height) ==
    LET q == (100 * width) \div height
        r == (100 * width) % height
    IN  IF 2 * r > height \/ (2 * r = height /\ q % 2 = 1) THEN q + 1 ELSE q

\* humanize_dict_rules(rule, human_func, unit): human_func is "" for the identity
\* and "prettify_value" for prettify_value of ValidationRuleDimensions
humanize_dict_rules(rule, human_func, unit) ==
    [n \in 1..Len(rule.ks) |->
        human_opr(rule.ks[n]) \o " " \o
        (IF human_func = "" THEN Str(rule.l[n])
         ELSE Str(rule.l[n].l[1]) \o " x " \o Str(rule.l[n].l[2]) \o "px")
        \o unit]

\* format_humanized_rules(rules, sep, prefix) with sep already defaulted
format_humanized_rules(rules, sep, prefix) ==
    LET pre == IF prefix # "" THEN prefix \o " " ELSE prefix
        no_of_rules == Len(rules)
    IN  IF no_of_rules = 1 THEN rules[1]
        ELSE IF no_of_rules = 2
            THEN pre \o Join(rules, " " \o sep \o " ")
        ELSE pre \o Join(SubSeq(rules, 1, no_of_rules - 1), ", ")
                 \o " " \o sep \o " " \o rules[no_of_rules]

\* error_message_template(rule_name, value, rule)
error_message_template(rule_name, value, rule) ==
    "<strong>[IMAGE " \o rule_name \o "]</strong> Validation error: <strong>"
    \o value \o "</strong> does not meet validation rule: <strong>"
    \o rule \o "</strong>."

\* the loop of build_tests over rule.items(), from item n on: [tests, err]
RECURSIVE BuildTestsFrom(_, _, _, _)
BuildTestsFrom(rule, value, n, acc) ==
    IF n > Len(rule.ks) THEN acc
    ELSE IF rule.ks[n] = err
        THEN BuildTestsFrom(rule, value, n + 1, [acc EXCEPT !.err = rule.l[n]])
    ELSE BuildTestsFrom(rule, value, n + 1,
            [acc EXCEPT !.tests =
                Append(@, comparison_operators(rule.ks[n], value, rule.l[n].i))])

build_tests(rule, value) ==
    BuildTestsFrom(rule, value, 1, [tests |-> <<>>, err |-> PyStr("")])

all(tests) == \A n \in 1..Len(tests) : tests[n]

any(tests) == \E n \in 1..Len(tests) : tests[n]

\* prettify_value of the rule kind on the value under test
prettify_value(name, value) ==
    CASE name = type_size       -> ToString(value.n) \o "KB"
      [] name = type_dimensions -> ToString(value.w) \o " x " \o ToString(value.h) \o "px"
      [] name = type_format     -> Upper(value.s)
      [] OTHER                  -> FloatStr(value.n)

\* prettify_list of ValidationRuleDimensions and of ValidationRuleFormat
prettify_list(name, ls) ==
    [n \in 1..Len(ls) |->
        IF name = type_dimensions
        THEN Str(ls[n].l[1]) \o " x " \o Str(ls[n].l[2]) \o "px"
        ELSE Upper(ls[n].s)]

\* the exception humanize_rule raises for the rule, "none" when it returns
humanize_rule_exc(name, rule) ==
    IF rule.t # "dict" THEN "none"
    ELSE IF name = type_format /\ err \in Range(rule.ks) THEN "KeyError"
    ELSE IF name = type_dimensions /\ ~has_width_height_keys(rule)
            /\ \E n \in 1..Len(rule.ks) : rule.l[n].t = "str" /\ rule.l[n].s = ""
        THEN "IndexError"
    ELSE "none"

\* humanize_rule of the rule kind, when it returns
humanize_rule(name, rule) ==
    CASE name = type_size ->
            IF rule.t = "int" THEN human_opr("eq") \o " " \o Str(rule) \o "KB"
            ELSE format_humanized_rules(humanize_dict_rules(rule, "", "KB"), "and", "")
      [] name = type_aspect_ratio ->
            IF rule.t = "float" THEN human_opr("eq") \o " " \o Str(rule)
            ELSE format_humanized_rules(humanize_dict_rules(rule, "", ""), "and", "")
      [] name = type_dimensions ->
            IF rule.t = "dict"
            THEN IF has_width_height_keys(rule)
                 THEN Join([n \in 1..Len(rule.ks) |->
                                Capitalize(trans_wh(rule.ks[n])) \o " " \o
                                format_humanized_rules(
                                    humanize_dict_rules(rule.l[n], "", "px"), "and", "")],
                           ". ")
                 ELSE format_humanized_rules(
                        humanize_dict_rules(rule, "prettify_value", ""), "and", "")
            ELSE human_opr("eq") \o " " \o
                 format_humanized_rules(
                    prettify_list(name, IF rule.t = "tuple" THEN <<rule>> ELSE rule.l),
                    "or", "one of the following dimensions")
      [] OTHER ->
            IF rule.t = "dict"
            THEN LET v == rule.l[Len(rule.l)]
                 IN  human_opr(rule.ks[Len(rule.ks)]) \o " " \o
                     (IF v.t = "list"
                      THEN format_humanized_rules(prettify_list(name, v.l), "and",
                                                  "the following formats")
                      ELSE Upper(v.s))
            ELSE human_opr("eq") \o " " \o
                 format_humanized_rules(
                    prettify_list(name, IF rule.t = "str" THEN <<rule>> ELSE rule.l),
                    "or", "one of the following formats")

\* a variant that rounds the size to the nearest KB
value_under_test_rounded(name, img) ==
    CASE name = type_size       -> [n |-> (img.size + 512) \div 1024, w |-> 0, h |-> 0, s |-> ""]
      [] name = type_dimensions -> [n |-> 0, w |-> img.width, h |-> img.height, s |-> ""]
      [] name = type_format     -> [n |-> 0, w |-> 0, h |-> 0, s |-> Lower(img.format)]
      [] OTHER -> [n |-> round_ratio(img.width, img.height), w |-> 0, h |-> 0, s |-> ""]

\* the value under test the validator of the rule kind takes from the image
value_under_test(name, img) ==
    CASE name = type_size       -> [n |-> img.size \div 1024, w |-> 0, h |-> 0, s |-> ""]
      [] name = type_dimensions -> [n |-> 0, w |-> img.width, h |-> img.height, s |-> ""]
      [] name = type_format     -> [n |-> 0, w |-> 0, h |-> 0, s |-> Lower(img.format)]
      [] OTHER -> [n |-> round_ratio(img.width, img.height), w |-> 0, h |-> 0, s |-> ""]

\* the tests of ValidationRuleFormat for one operator of a dict rule
format_tests(value, validator_value, str_opr) ==
    IF validator_value.t = "str"
    THEN <<comparison_operators(str_opr, value, validator_value.s)>>
    ELSE [n \in 1..Len(validator_value.l) |->
            comparison_operators(str_opr, value, validator_value.l[n].s)]

\* a variant that compares the (width, height) of the image with the tuple operand
\* as a whole, the way Python orders tuples
RECURSIVE DictTestsFromWholeTuple(_, _, _, _, _)
DictTestsFromWholeTuple(name, rule, value, n, acc) ==
    LET whole(opr, w, h) ==
            IF value.w = w THEN comparison_operators(opr, value.h, h)
            ELSE comparison_operators(opr, value.w, w)
    IN  IF n > Len(rule.ks) THEN acc
        ELSE IF name = type_dimensions /\ has_width_height_keys(rule)
            THEN LET loc == build_tests(rule.l[n],
                                        IF rule.ks[n] = "w" THEN value.w ELSE value.h)
                 IN  DictTestsFromWholeTuple(name, rule, value, n + 1,
                        [tests |-> acc.tests \o loc.tests,
                         err |-> IF Truthy(loc.err) THEN Append(acc.err, loc.err.s)
                                 ELSE acc.err])
        ELSE IF rule.ks[n] = err
            THEN DictTestsFromWholeTuple(name, rule, value, n + 1,
                    [acc EXCEPT !.err = <<rule.l[n].s>>])
        ELSE IF name = type_dimensions
            THEN DictTestsFromWholeTuple(name, rule, value, n + 1,
                    [acc EXCEPT !.tests = @ \o
                        <<whole(rule.ks[n], rule.l[n].l[1].i, rule.l[n].l[2].i)>>])
        ELSE DictTestsFromWholeTuple(name, rule, value, n + 1,
                    [acc EXCEPT !.tests = format_tests(value.s, rule.l[n], rule.ks[n])])

\* the loops of the validators over the items of a dict rule, from item n on
RECURSIVE DictTestsFrom(_, _, _, _, _)
DictTestsFrom(name, rule, value, n, acc) ==
    IF n > Len(rule.ks) THEN acc
    ELSE IF name = type_dimensions /\ has_width_height_keys(rule)
        THEN LET loc == build_tests(rule.l[n], IF rule.ks[n] = "w" THEN value.w ELSE value.h)
             IN  DictTestsFrom(name, rule, value, n + 1,
                    [tests |-> acc.tests \o loc.tests,
                     err |-> IF Truthy(loc.err) THEN Append(acc.err, loc.err.s)
                             ELSE acc.err])
    ELSE IF rule.ks[n] = err
        THEN DictTestsFrom(name, rule, value, n + 1, [acc EXCEPT !.err = <<rule.l[n].s>>])
    ELSE IF name = type_dimensions
        THEN DictTestsFrom(name, rule, value, n + 1,
                [acc EXCEPT !.tests = @ \o
                    <<comparison_operators(rule.ks[n], value.w, rule.l[n].l[1].i),
                      comparison_operators(rule.ks[n], value.h, rule.l[n].l[2].i)>>])
    ELSE DictTestsFrom(name, rule, value, n + 1,
                [acc EXCEPT !.tests = format_tests(value.s, rule.l[n], rule.ks[n])])

\* a variant that sets test_condition to any for every rule
test_condition_any(rule, tests) == any(tests)

\* a variant that leaves test_condition at all for a list rule
test_condition_all(rule, tests) == all(tests)

\* test_condition(tests) of the Dimensions and Format validators: any for a list
\* rule, all for the others
test_condition(rule, tests) == IF rule.t = "list" THEN any(tests) ELSE all(tests)

\* the tests, the custom error and the test condition of a call: [passed, err]
run_tests(name, rule, value) ==
    CASE name \in {type_size, type_aspect_ratio} ->
            IF rule.t # "dict"
            THEN [passed |-> value.n = rule.i, err |-> ""]
            ELSE [passed |-> all(build_tests(rule, value.n).tests),
                  err |-> build_tests(rule, value.n).err.s]
      [] name = type_dimensions ->
            IF rule.t = "tuple"
            THEN [passed |-> test_condition(rule, <<value.w = rule.l[1].i,
                                                    value.h = rule.l[2].i>>),
                  err |-> ""]
            ELSE IF rule.t = "list"
            THEN [passed |-> test_condition(rule,
                                [n \in 1..Len(rule.l) |->
                                    value.w = rule.l[n].l[1].i /\ value.h = rule.l[n].l[2].i]),
                  err |-> ""]
            ELSE LET r == DictTestsFrom(name, rule, value, 1, [tests |-> <<>>, err |-> <<>>])
                 IN  [passed |-> test_condition(rule, r.tests), err |-> Join(r.err, " ")]
      [] OTHER ->
            IF rule.t = "str"
            THEN [passed |-> test_condition(rule, format_tests(value.s, rule, "eq")),
                  err |-> ""]
            ELSE IF rule.t = "list"
            THEN [passed |-> test_condition(rule, format_tests(value.s, rule, "eq")),
                  err |-> ""]
            ELSE LET r == DictTestsFrom(name, rule, value, 1, [tests |-> <<>>, err |-> <<>>])
                 IN  [passed |-> test_condition(rule, r.tests), err |-> Join(r.err, " ")]

\* the end of a call: return None, or raise with err or the template
raise_or_return(name, rule, value, result) ==
    IF result.passed THEN [exc |-> "none", message |-> ""]
    ELSE IF result.err # "" THEN [exc |-> "ValidationError", message |-> result.err]
    ELSE IF humanize_rule_exc(name, rule) # "none"
        THEN [exc |-> humanize_rule_exc(name, rule), message |-> ""]
    ELSE [exc |-> "ValidationError",
          message |-> error_message_template(Upper(trans_type(name)),
                                             prettify_value(name, value),
                                             humanize_rule(name, rule))]

\* validator(value) of the closure generate_validator returns for the rule
validator(name, rule, img) ==
    raise_or_return(name, rule, value_under_test(name, img),
                    run_tests(name, rule, value_under_test(name, img)))

(***************************************************************************)
(* VimageValue and VimageEntry (base.py).  The value of an entry is a      *)
(* Python value; a valid one is a dict of rule kind -> payload.            *)
(***************************************************************************)
VimageValue_init(value) ==
    IF value.t # "dict" THEN Raise("TypeError", "value_not_dict") ELSE NoError

nonsense_keys_together(value) ==
    IF \E n \in 1..Len(nonsense_values_together) :
            nonsense_values_together[n] \subseteq Range(value.ks)
    THEN InvalidValue("nonsense_keys_together")
    ELSE NoError

\* the loop of validate_value over validation_rule_generator(), from item n on
RECURSIVE ValidateValueFrom(_, _)
ValidateValueFrom(value, n) ==
    IF n > Len(value.ks) THEN NoError
    ELSE IF rule_is_valid(value.ks[n], value.l[n]) # NoError
        THEN rule_is_valid(value.ks[n], value.l[n])
    ELSE ValidateValueFrom(value, n + 1)

validate_value(value) == ValidateValueFrom(value, 1)

\* a variant that validates the rules before it looks for nonsense keys
value_is_valid_rules_first(value) ==
    IF value.ks = <<>> THEN InvalidValue("empty_value")
    ELSE IF validate_value(value) # NoError THEN validate_value(value)
    ELSE nonsense_keys_together(value)

\* VimageValue.is_valid
value_is_valid(value) ==
    IF value.ks = <<>> THEN InvalidValue("empty_value")
    ELSE IF nonsense_keys_together(value) # NoError THEN nonsense_keys_together(value)
    ELSE validate_value(value)

\* VimageEntry.__init__
VimageEntry_init(key, value) ==
    IF VimageKey_init(key) # NoError THEN VimageKey_init(key)
    ELSE VimageValue_init(value)

\* a variant that validates the value before the key
entry_is_valid_value_first(key, value) ==
    IF value_is_valid(value) # NoError THEN value_is_valid(value)
    ELSE key_is_valid(key)

\* VimageEntry.is_valid
entry_is_valid(key, value) ==
    IF key_is_valid(key) # NoError THEN key_is_valid(key)
    ELSE value_is_valid(value)

\* VimageEntry(key, value).is_valid()
check_entry(key, value) ==
    IF VimageEntry_init(key, value) # NoError THEN VimageEntry_init(key, value)
    ELSE entry_is_valid(key, value)

(***************************************************************************)
(* configuration_check (checker.py).  The setting is [defined, type,       *)
(* items]: items are the [key, value] pairs of a dict, in declaration      *)
(* order.                                                                  *)
(***************************************************************************)
AbsentSetting == [defined |-> FALSE, type |-> "NoneType", items |-> <<>>]

NonDictSetting == [defined |-> TRUE, type |-> "list", items |-> <<>>]

DictSetting(items) == [defined |-> TRUE, type |-> "dict", items |-> items]

\* a variant of the shape test that tests "not config" before the type
check_config_shape_falsy_first(s) ==
    IF ~s.defined THEN Raise("MissingConfigError", "missing")
    ELSE IF s.items = <<>> THEN Raise("EmptyConfigError", "empty_dict")
    ELSE IF s.type # "dict" THEN Raise("InvalidConfigValueError", "not_a_dict")
    ELSE NoError

\* steps 1 to 3 of configuration_check
check_config_shape(s) ==
    IF ~s.defined THEN Raise("MissingConfigError", "missing")
    ELSE IF s.type # "dict" THEN Raise("InvalidConfigValueError", "not_a_dict")
    ELSE IF s.items = <<>> THEN Raise("EmptyConfigError", "empty_dict")
    ELSE NoError

(***************************************************************************)
(* VimageConfig (base.py): build_info, sort_info, build_draft_registry,    *)
(* build_registry.  A validator is [kind, rule, src]: the closure made by  *)
(* generate_validator of the rule kind over the payload, for the entry at  *)
(* position src of the setting.  A dict is the sequence of its [k, v]      *)
(* items in insertion order.                                               *)
(***************************************************************************)
Validator(name, rule, src) == [kind |-> name, rule |-> rule, src |-> src]

RECURSIVE MappingFrom(_, _, _)
MappingFrom(value, src, n) ==
    IF n > Len(value.ks) THEN <<>>
    ELSE <<[k |-> value.ks[n], v |-> Validator(value.ks[n], value.l[n], src)]>>
         \o MappingFrom(value, src, n + 1)

\* VimageValue.type_validator_mapping: [exc, mapping]
type_validator_mapping(value, src) ==
    IF \E n \in 1..Len(value.ks) : value.ks[n] \notin Range(valid_types_strings)
    THEN [exc |-> "InvalidValueError", mapping |-> <<>>]
    ELSE [exc |-> "none", mapping |-> MappingFrom(value, src, 1)]

\* VimageEntry.entry_info: [exc, entry]
entry_info(key, value, src) ==
    IF get_fields(key).exc # "none"
        THEN [exc |-> get_fields(key).exc, entry |-> <<>>]
    ELSE IF type_validator_mapping(value, src).exc # "none"
        THEN [exc |-> type_validator_mapping(value, src).exc, entry |-> <<>>]
    ELSE [exc |-> "none",
          entry |-> <<[app_label |-> get_app_label(key),
                       specificity |-> get_specificity(key),
                       fields |-> get_fields(key).fields,
                       mapping |-> type_validator_mapping(value, src).mapping]>>]

BucketIndex(buckets, app_label) ==
    IF \E n \in 1..Len(buckets) : buckets[n].app_label = app_label
    THEN CHOOSE n \in 1..Len(buckets) : buckets[n].app_label = app_label
    ELSE 0

\* info[entry_info['app_label']].append(entry_info)
AppendToBucket(buckets, e) ==
    IF BucketIndex(buckets, e.app_label) = 0
    THEN Append(buckets, [app_label |-> e.app_label, entries |-> <<e>>])
    ELSE [buckets EXCEPT ![BucketIndex(buckets, e.app_label)].entries = Append(@, e)]

RECURSIVE BuildInfoFrom(_, _, _)
BuildInfoFrom(items, n, buckets) ==
    IF n > Len(items) THEN [exc |-> "none", info |-> buckets]
    ELSE IF entry_info(items[n].key, items[n].value, n).exc # "none"
        THEN [exc |-> entry_info(items[n].key, items[n].value, n).exc, info |-> <<>>]
    ELSE BuildInfoFrom(items, n + 1,
            AppendToBucket(buckets, entry_info(items[n].key, items[n].value, n).entry[1]))

\* VimageConfig.build_info: [exc, info]
build_info(config) == BuildInfoFrom(config, 1, <<>>)

\* insert e into the sorted list, after every element that is not greater
\* a variant that puts an entry before the entries of its specificity
RECURSIVE InsertSortedBeforeEqual(_, _)
InsertSortedBeforeEqual(sorted, e) ==
    IF sorted = <<>> THEN <<e>>
    ELSE IF e.specificity <= Head(sorted).specificity THEN <<e>> \o sorted
    ELSE <<Head(sorted)>> \o InsertSortedBeforeEqual(Tail(sorted), e)

RECURSIVE InsertSorted(_, _)
InsertSorted(sorted, e) ==
    IF sorted = <<>> THEN <<e>>
    ELSE IF e.specificity < Head(sorted).specificity THEN <<e>> \o sorted
    ELSE <<Head(sorted)>> \o InsertSorted(Tail(sorted), e)

RECURSIVE SortFrom(_, _, _)
SortFrom(entries, n, sorted) ==
    IF n > Len(entries) THEN sorted
    ELSE SortFrom(entries, n + 1, InsertSorted(sorted, entries[n]))

\* a variant that leaves a bucket in declaration order
sort_bucket_unsorted(entries) == entries

\* value.sort(key=lambda d: d['specificity']): ascending and stable
sort_bucket(entries) == SortFrom(entries, 1, <<>>)

\* VimageConfig.sort_info
sort_info(buckets) ==
    [n \in 1..Len(buckets) |->
        [app_label |-> buckets[n].app_label, entries |-> sort_bucket(buckets[n].entries)]]

RECURSIVE FlattenBuckets(_)
FlattenBuckets(buckets) ==
    IF buckets = <<>> THEN <<>>
    ELSE Head(buckets).entries \o FlattenBuckets(Tail(buckets))

KeyIndex(dict, k) ==
    IF \E n \in 1..Len(dict) : dict[n].k = k
    THEN CHOOSE n \in 1..Len(dict) : dict[n].k = k
    ELSE 0

\* dict[k] = v
DictSet(dict, k, v) ==
    IF KeyIndex(dict, k) = 0 THEN Append(dict, [k |-> k, v |-> v])
    ELSE [dict EXCEPT ![KeyIndex(dict, k)].v = v]

DictGet(dict, k) == dict[KeyIndex(dict, k)].v

DictKeys(dict) == {dict[n].k : n \in 1..Len(dict)}

\* for k, v in mapping.items(): target[k] = v
RECURSIVE DictUpdateFrom(_, _, _)
DictUpdateFrom(target, mapping, n) ==
    IF n > Len(mapping) THEN target
    ELSE DictUpdateFrom(DictSet(target, mapping[n].k, mapping[n].v), mapping, n + 1)

(***************************************************************************)
(* build_draft_registry works on dict objects.  heap is the sequence of    *)
(* the dict objects alive, a reference is an index into it; the mapping of *)
(* the n-th entry_info is object n, fields maps each field of the draft    *)
(* registry, in insertion order, to the reference it holds.                *)
(***************************************************************************)
AliasedFieldDict(heap, m) == [heap |-> heap, ref |-> m]

\* draft_registry[field] = {k: v for k, v in mapping.items()}: a new dict object
NewFieldDict(heap, m) == [heap |-> Append(heap, heap[m]), ref |-> Len(heap) + 1]

KeepExistingMerge(target, mapping) ==
    DictUpdateFrom(target,
                   SelectSeq(mapping, LAMBDA item : item.k \notin DictKeys(target)), 1)

\* for k, v in mapping.items(): draft_registry[field][k] = v
MergeMapping(target, mapping) == DictUpdateFrom(target, mapping, 1)

\* a variant that gives a field it has seen before the mapping of the entry in
\* place of the dict the field had
MergeFieldReplacing(st, m, field) ==
    IF KeyIndex(st.fields, field) = 0
    THEN [heap |-> NewFieldDict(st.heap, m).heap,
          fields |-> Append(st.fields, [k |-> field, v |-> NewFieldDict(st.heap, m).ref])]
    ELSE [heap |-> [st.heap EXCEPT ![DictGet(st.fields, field)] = st.heap[m]],
          fields |-> st.fields]

\* one pass of "for field in d['fields']", d being the m-th entry_info
MergeField(st, m, field) ==
    IF KeyIndex(st.fields, field) = 0
    THEN [heap |-> NewFieldDict(st.heap, m).heap,
          fields |-> Append(st.fields, [k |-> field, v |-> NewFieldDict(st.heap, m).ref])]
    ELSE [heap |-> [st.heap EXCEPT ![DictGet(st.fields, field)] =
                        MergeMapping(@, st.heap[m])],
          fields |-> st.fields]

RECURSIVE MergeFieldsFrom(_, _, _, _)
MergeFieldsFrom(st, m, fields, n) ==
    IF n > Len(fields) THEN st
    ELSE MergeFieldsFrom(MergeField(st, m, fields[n]), m, fields, n + 1)

RECURSIVE MergeEntriesFrom(_, _, _)
MergeEntriesFrom(st, entries, m) ==
    IF m > Len(entries) THEN st
    ELSE MergeEntriesFrom(MergeFieldsFrom(st, m, entries[m].fields, 1), entries, m + 1)

\* VimageConfig.build_draft_registry: the dict field -> {kind: validator}
build_draft_registry(buckets) ==
    LET entries == FlattenBuckets(buckets)
        st == MergeEntriesFrom(
                [heap |-> [m \in 1..Len(entries) |-> entries[m].mapping],
                 fields |-> <<>>],
                entries, 1)
    IN  [n \in 1..Len(st.fields) |->
            [k |-> st.fields[n].k, v |-> st.heap[st.fields[n].v]]]

\* list(mapping.values())
DictValues(dict) == [n \in 1..Len(dict) |-> dict[n].v]

\* VimageConfig.build_registry: the dict field -> [validator, ...]
build_registry(draft) ==
    [n \in 1..Len(draft) |-> [k |-> draft[n].k, v |-> DictValues(draft[n].v)]]

(***************************************************************************)
(* The inputs of the model.                                                *)
(***************************************************************************)
\* the key: value items of a dict of at most n items, in declaration order: the
\* keys of a dict are distinct
RECURSIVE ItemSeqs(_, _, _)
ItemSeqs(keys, values, n) ==
    IF n = 0 THEN {<<>>}
    ELSE LET shorter == ItemSeqs(keys, values, n - 1)
         IN  shorter \cup
             UNION {{Append(items, [key |-> k, value |-> v]) :
                        k \in keys \ {items[m].key : m \in 1..Len(items)},
                        v \in values} :
                    items \in {x \in shorter : Len(x) = n - 1}}

Configs(keys, values, n) == ItemSeqs(keys, values, n)

K_app == KeyOf(<<"myapp", "models">>)

K_model == KeyOf(<<"myapp", "models", "AnotherModel">>)

K_field == KeyOf(<<"myapp", "models", "AnotherModel", "thumb">>)

K_other_model == KeyOf(<<"myapp", "models", "MyModel">>)

K_other_app == KeyOf(<<"myapp2", "models">>)

K_img == KeyOf(<<"myapp", "models", "MyModel", "img">>)

K_foreign_field == KeyOf(<<"myapp", "models", "MyModel", "thumb">>)

K_no_model == KeyOf(<<"myapp", "models", "NoModel">>)

V_size == PyDict(<<"SIZE">>, <<PyInt(100)>>)

V_format == PyDict(<<"FORMAT">>, <<PyStr("png")>>)

V_format_size == PyDict(<<"FORMAT", "SIZE">>, <<PyStr("jpeg"), PyInt(500)>>)

V_not_dict == PyInt(1)

V_wh_not_dict == PyDict(<<"DIMENSIONS">>, <<PyDict(<<"w">>, <<PyInt(5)>>)>>)

V_nonsense == PyDict(<<"SIZE">>, <<PyDict(<<"lt", "lte">>, <<PyInt(1), PyInt(2)>>)>>)

V_both == PyDict(<<"DIMENSIONS", "ASPECT_RATIO">>,
                 <<PyTuple(<<PyInt(4), PyInt(3)>>), PyFloat(133)>>)

V_dimensions == PyDict(<<"DIMENSIONS">>, <<PyTuple(<<PyInt(4), PyInt(3)>>)>>)

V_aspect_ratio == PyDict(<<"ASPECT_RATIO">>, <<PyFloat(133)>>)

\* keys and values of the settings checked at start-up
CheckKeys == {K_app, K_img, NonStrKey, K_no_model, K_foreign_field}

CheckValues == {V_size, V_format_size, V_not_dict, V_wh_not_dict, V_nonsense, V_both}

\* keys that resolve to one field, and values that declare DIMENSIONS, ASPECT_RATIO
\* or both
ExclusionKeys == {K_app, K_img}

ExclusionValues == {V_size, V_dimensions, V_aspect_ratio, V_both}

\* keys and values of the valid settings whose registry is built
MergeKeys == {K_app, K_model, K_field, K_other_model, K_other_app}

MergeValues == {V_size, V_format, V_format_size}

\* the validators list an ImageField has before start-up
ExistingValidator == Validator("existing", PyNone, 0)

InitialValidators == [f \in AllImageFields |-> <<ExistingValidator>>]

NoKey == StrKey(<<>>)

NoKeyResult == [is_valid |-> NoError, specificity |-> 0, fields |-> Fields(<<>>)]

NoRule == [name |-> "", rule |-> PyNone]

NoEntry == [key |-> NoKey, value |-> PyNone]

NoEntryResult == [value_is_valid |-> NoError, is_valid |-> NoError]

\* an image file: its size in bytes, its width and height in pixels, its format
NoImage == [size |-> 0, width |-> 0, height |-> 0, format |-> ""]

\* the outcome of a call of a validator: the exception raised and its message
NoOutcome == [exc |-> "none", message |-> ""]

NoFrames == <<>>

(***************************************************************************)
(* VimageConfig.ready (apps.py): configuration_check(), add_validators().  *)
(***************************************************************************)
InitWith(s) ==
    /\ settings = s
    /\ pc = "ready"
    /\ idx = 0
    /\ exc = NoError
    /\ raised_in = ""
    /\ validated = <<>>
    /\ info = <<>>
    /\ draft_registry = <<>>
    /\ registry = <<>>
    /\ validators = InitialValidators
    /\ vkey = NoKey
    /\ key_result = NoKeyResult
    /\ calls = 0
    /\ vrule = NoRule
    /\ rule_result = NoError
    /\ ventry = NoEntry
    /\ entry_result = NoEntryResult
    /\ image = NoImage
    /\ outcome = NoOutcome
    /\ frames = NoFrames

Init ==
    \E s \in {AbsentSetting, NonDictSetting}
             \cup {DictSetting(c) : c \in Configs(CheckKeys, CheckValues, MaxEntries)} :
        InitWith(s)

InitMerge ==
    \E c \in Configs(MergeKeys, MergeValues, MaxMergeEntries) \ {<<>>} :
        InitWith(DictSetting(c))

RaiseFrom(e, where) ==
    /\ pc' = "raised"
    /\ exc' = e
    /\ raised_in' = where

\* ready() calls configuration_check(), which tests the shape of the setting
ConfigurationCheck ==
    /\ pc = "ready"
    /\ IF check_config_shape(settings) # NoError
       THEN /\ RaiseFrom(check_config_shape(settings), "configuration_check")
            /\ UNCHANGED idx
       ELSE /\ pc' = "entries"
            /\ idx' = 1
            /\ UNCHANGED <<exc, raised_in>>
    /\ UNCHANGED <<settings, validated, info, draft_registry, registry, validators,
                   vkey, key_result, calls, vrule, rule_result,
                   entry_vars, invoke_vars>>

\* a variant of the loop that keeps the error of an entry and goes on to the next
\* entry, raising the last error kept once every entry has been validated
CheckEntryCollecting ==
    /\ pc = "entries"
    /\ validated' = Append(validated, idx)
    /\ LET r == check_entry(settings.items[idx].key, settings.items[idx].value)
           kept == IF r # NoError THEN r ELSE exc
       IN  /\ exc' = kept
           /\ idx' = idx + 1
           /\ IF idx < Len(settings.items)
              THEN pc' = "entries" /\ UNCHANGED raised_in
              ELSE IF kept # NoError
                   THEN pc' = "raised" /\ raised_in' = "configuration_check"
                   ELSE pc' = "add_validators" /\ UNCHANGED raised_in
    /\ UNCHANGED <<settings, info, draft_registry, registry, validators,
                   vkey, key_result, calls, vrule, rule_result,
                   entry_vars, invoke_vars>>

\* a variant of the loop under a ready() that catches the error of
\* configuration_check and calls add_validators() all the same
CheckEntryCaught ==
    /\ pc = "entries"
    /\ validated' = Append(validated, idx)
    /\ LET r == check_entry(settings.items[idx].key, settings.items[idx].value)
       IN  IF r # NoError
           THEN /\ pc' = "add_validators"
                /\ exc' = r
                /\ raised_in' = "configuration_check"
                /\ UNCHANGED idx
           ELSE /\ pc' = IF idx = Len(settings.items) THEN "add_validators" ELSE "entries"
                /\ idx' = idx + 1
                /\ UNCHANGED <<exc, raised_in>>
    /\ UNCHANGED <<settings, info, draft_registry, registry, validators,
                   vkey, key_result, calls, vrule, rule_result,
                   entry_vars, invoke_vars>>

\* one pass of "for key, value in config.items(): VimageEntry(key, value).is_valid()"
CheckEntry ==
    /\ pc = "entries"
    /\ validated' = Append(validated, idx)
    /\ LET r == check_entry(settings.items[idx].key, settings.items[idx].value)
       IN  IF r # NoError
           THEN /\ RaiseFrom(r, "configuration_check")
                /\ UNCHANGED idx
           ELSE /\ pc' = IF idx = Len(settings.items) THEN "add_validators" ELSE "entries"
                /\ idx' = idx + 1
                /\ UNCHANGED <<exc, raised_in>>
    /\ UNCHANGED <<settings, info, draft_registry, registry, validators,
                   vkey, key_result, calls, vrule, rule_result,
                   entry_vars, invoke_vars>>

\* a variant that adds the validators of each entry to its fields as soon as the
\* entry is resolved, while info is being built
BuildInfoAttaching ==
    LET RECURSIVE AttachedFrom(_, _)
        AttachedFrom(n, lists) ==
            IF n > Len(settings.items) THEN lists
            ELSE LET e == entry_info(settings.items[n].key, settings.items[n].value, n)
                 IN  IF e.exc # "none" THEN lists
                     ELSE AttachedFrom(n + 1,
                            [f \in DOMAIN lists |->
                                IF f \in Range(e.entry[1].fields)
                                THEN lists[f] \o DictValues(e.entry[1].mapping)
                                ELSE lists[f]])
    IN  /\ pc = "add_validators"
        /\ validators' = AttachedFrom(1, validators)
        /\ IF build_info(settings.items).exc # "none"
           THEN /\ RaiseFrom(Raise(build_info(settings.items).exc, "build_info"),
                             "add_validators")
                /\ UNCHANGED info
           ELSE /\ pc' = "sort_info"
                /\ info' = build_info(settings.items).info
                /\ UNCHANGED <<exc, raised_in>>
        /\ UNCHANGED <<settings, idx, validated, draft_registry, registry,
                       vkey, key_result, calls, vrule, rule_result,
                       entry_vars, invoke_vars>>

\* add_validators(): info = self.build_info()
BuildInfo ==
    /\ pc = "add_validators"
    /\ IF build_info(settings.items).exc # "none"
       THEN /\ RaiseFrom(Raise(build_info(settings.items).exc, "build_info"),
                         "add_validators")
            /\ UNCHANGED info
       ELSE /\ pc' = "sort_info"
            /\ info' = build_info(settings.items).info
            /\ UNCHANGED <<exc, raised_in>>
    /\ UNCHANGED <<settings, idx, validated, draft_registry, registry, validators,
                   vkey, key_result, calls, vrule, rule_result,
                   entry_vars, invoke_vars>>

\* sorted_info = self.sort_info(info)
SortInfo ==
    /\ pc = "sort_info"
    /\ info' = sort_info(info)
    /\ pc' = "build_draft_registry"
    /\ UNCHANGED <<settings, idx, exc, raised_in, validated, draft_registry, registry,
                   validators, vkey, key_result, calls, vrule, rule_result,
                   entry_vars, invoke_vars>>

\* draft_registry = self.build_draft_registry(sorted_info)
BuildDraftRegistry ==
    /\ pc = "build_draft_registry"
    /\ draft_registry' = build_draft_registry(info)
    /\ pc' = "build_registry"
    /\ UNCHANGED <<settings, idx, exc, raised_in, validated, info, registry,
                   validators, vkey, key_result, calls, vrule, rule_result,
                   entry_vars, invoke_vars>>

\* registry = self.build_registry(draft_registry)
BuildRegistry ==
    /\ pc = "build_registry"
    /\ registry' = build_registry(draft_registry)
    /\ pc' = IF draft_registry = <<>> THEN "done" ELSE "attach"
    /\ idx' = 1
    /\ UNCHANGED <<settings, exc, raised_in, validated, info, draft_registry,
                   validators, vkey, key_result, calls, vrule, rule_result,
                   entry_vars, invoke_vars>>

\* a variant that assigns the list of the registry to field.validators
AttachReplacing ==
    /\ pc = "attach"
    /\ validators' = [validators EXCEPT ![registry[idx].k] = registry[idx].v]
    /\ pc' = IF idx = Len(registry) THEN "done" ELSE "attach"
    /\ idx' = idx + 1
    /\ UNCHANGED <<settings, exc, raised_in, validated, info, draft_registry, registry,
                   vkey, key_result, calls, vrule, rule_result,
                   entry_vars, invoke_vars>>

\* one pass of "for field, validators in registry.items(): field.validators += validators"
Attach ==
    /\ pc = "attach"
    /\ validators' = [validators EXCEPT ![registry[idx].k] = @ \o registry[idx].v]
    /\ pc' = IF idx = Len(registry) THEN "done" ELSE "attach"
    /\ idx' = idx + 1
    /\ UNCHANGED <<settings, exc, raised_in, validated, info, draft_registry, registry,
                   vkey, key_result, calls, vrule, rule_result,
                   entry_vars, invoke_vars>>

Next ==
    \/ ConfigurationCheck
    \/ CheckEntry
    \/ BuildInfo
    \/ SortInfo
    \/ BuildDraftRegistry
    \/ BuildRegistry
    \/ Attach

\* start-up on any setting
Spec == Init /\ [][Next]_vars

\* start-up on the settings that declare valid entries only
SpecMerge == InitMerge /\ [][Next]_vars

InitExclusion ==
    \E c \in Configs(ExclusionKeys, ExclusionValues, MaxEntries) \ {<<>>} :
        InitWith(DictSetting(c))

\* start-up on the settings that declare DIMENSIONS and ASPECT_RATIO
SpecExclusion == InitExclusion /\ [][Next]_vars

\* the largest number of entries of a setting declared in every order
MaxOrderEntries == 3

\* keys of one app that resolve to overlapping fields, and two values
OrderKeys == {K_app, K_model, K_field, K_other_model}

OrderValues == {V_size, V_format_size}

InitOrder ==
    \E c \in Configs(OrderKeys, OrderValues, MaxOrderEntries) \ {<<>>} :
        InitWith(DictSetting(c))

\* start-up on the settings whose entries are then declared in every order
SpecOrder == InitOrder /\ [][Next]_vars

(***************************************************************************)
(* The operations of a VimageKey, called on keys of 1 to MaxKeyWords       *)
(* words.                                                                  *)
(***************************************************************************)
\* the words tried at position p of a key
KeyWordsAt(p) ==
    CASE p = 1 -> {"myapp", "myapp2", "no_model", "nonexist", "class", ""}
      [] p = 2 -> {"models", "MyModel", ""}
      [] p = 3 -> {"MyModel", "AnotherModel", "NoModel", "class"}
      [] p = 4 -> {"img", "thumb", "heading", "nofield", "9img"}
      [] OTHER -> {"other"}

RECURSIVE WordSeqs(_)
WordSeqs(n) ==
    IF n = 0 THEN {<<>>}
    ELSE {Append(ws, w) : ws \in WordSeqs(n - 1), w \in KeyWordsAt(n)}

TestKeys == {KeyOf(ws) : ws \in UNION {WordSeqs(n) : n \in 1..MaxKeyWords}}

InitKey ==
    /\ settings = AbsentSetting
    /\ pc = "key"
    /\ idx = 0
    /\ exc = NoError
    /\ raised_in = ""
    /\ validated = <<>>
    /\ info = <<>>
    /\ draft_registry = <<>>
    /\ registry = <<>>
    /\ validators = InitialValidators
    /\ vkey \in TestKeys
    /\ key_result = NoKeyResult
    /\ calls = 0
    /\ vrule = NoRule
    /\ rule_result = NoError
    /\ ventry = NoEntry
    /\ entry_result = NoEntryResult
    /\ image = NoImage
    /\ outcome = NoOutcome
    /\ frames = NoFrames

\* vk.is_valid()
KeyIsValid ==
    /\ pc = "key"
    /\ key_result' = [key_result EXCEPT !.is_valid = key_is_valid(vkey)]
    /\ pc' = "key_checked"
    /\ UNCHANGED <<settings, idx, exc, raised_in, validated, info, draft_registry,
                   registry, validators, vkey, calls, vrule, rule_result,
                   entry_vars, invoke_vars>>

\* vk.get_specificity(); vk.get_fields()
KeyResolve ==
    /\ pc \in {"key_checked", "key_resolved"}
    /\ calls < MaxCalls
    /\ key_result' = [key_result EXCEPT !.specificity = get_specificity(vkey),
                                        !.fields = get_fields(vkey)]
    /\ calls' = calls + 1
    /\ pc' = "key_resolved"
    /\ UNCHANGED <<settings, idx, exc, raised_in, validated, info, draft_registry,
                   registry, validators, vkey, vrule, rule_result,
                   entry_vars, invoke_vars>>

NextKey ==
    \/ KeyIsValid
    \/ KeyResolve

SpecKey == InitKey /\ [][NextKey]_vars

(***************************************************************************)
(* is_valid of the four rule kinds, called on scalar payloads and on       *)
(* dicts of 1 to MaxRuleKeys keys.                                         *)
(***************************************************************************)
RuleNames == Range(valid_types_strings) \cup {"MODE"}

OperatorKeys == Range(valid_operators_strings) \cup {err}

Operands == {PyInt(5), PyFloat(150), PyStr("png"), PyTuple(<<PyInt(5), PyInt(5)>>)}

RECURSIVE DictsOfLen(_)
DictsOfLen(n) ==
    IF n = 0 THEN {PyDict(<<>>, <<>>)}
    ELSE {PyDict(Append(d.ks, k), Append(d.l, v)) :
            d \in DictsOfLen(n - 1), k \in OperatorKeys, v \in Operands}

DistinctDictKeys(d) == Cardinality(Range(d.ks)) = Len(d.ks)

ScalarPayloads ==
    Operands \cup {PyInt(0), PyFloat(0), PyStr("exe"), PyList(<<PyStr("png")>>),
                   PyList(<<PyTuple(<<PyInt(5), PyInt(5)>>)>>), PyNone}

\* dicts keyed by w or h, over int-operator dicts
WidthHeightPayloads ==
    LET subs == {PyDict(<<"gt">>, <<PyInt(5)>>),
                 PyDict(<<"lt", "lte">>, <<PyInt(5), PyInt(6)>>),
                 PyDict(<<"ne", "eq">>, <<PyInt(5), PyInt(5)>>),
                 PyDict(<<err>>, <<PyStr("x")>>),
                 PyDict(<<"lt", err>>, <<PyInt(5), PyStr("x")>>),
                 PyDict(<<"lt">>, <<PyStr("png")>>)}
    IN  {PyDict(<<k>>, <<d>>) : k \in width_height_operators, d \in subs}
        \cup {PyDict(<<"w", "h">>, <<a, b>>) : a, b \in subs}

\* the payloads under test: the scalars, the dicts of at most n items, and the
\* dicts keyed by w or h
\* floats that are zero or negative, alone and as operands of a dict
NonPositiveFloatPayloads ==
    {PyFloat(-150),
     PyDict(<<"lt">>, <<PyFloat(0)>>),
     PyDict(<<"gte", err>>, <<PyFloat(-150), PyStr("x")>>),
     PyDict(<<"gt", "lt">>, <<PyFloat(150), PyFloat(-150)>>)}

TestPayloads(n) ==
    ScalarPayloads
    \cup {d \in UNION {DictsOfLen(m) : m \in 0..n} : DistinctDictKeys(d)}
    \cup WidthHeightPayloads
    \cup NonPositiveFloatPayloads

InitRule ==
    /\ settings = AbsentSetting
    /\ pc = "rule"
    /\ idx = 0
    /\ exc = NoError
    /\ raised_in = ""
    /\ validated = <<>>
    /\ info = <<>>
    /\ draft_registry = <<>>
    /\ registry = <<>>
    /\ validators = InitialValidators
    /\ vkey = NoKey
    /\ key_result = NoKeyResult
    /\ calls = 0
    /\ vrule \in [name : RuleNames, rule : TestPayloads(MaxRuleKeys)]
    /\ rule_result = NoError
    /\ ventry = NoEntry
    /\ entry_result = NoEntryResult
    /\ image = NoImage
    /\ outcome = NoOutcome
    /\ frames = NoFrames

\* validation_rule_factory(name, rule).is_valid()
RuleIsValid ==
    /\ pc = "rule"
    /\ rule_result' = rule_is_valid(vrule.name, vrule.rule)
    /\ pc' = "rule_checked"
    /\ UNCHANGED <<settings, idx, exc, raised_in, validated, info, draft_registry,
                   registry, validators, vkey, key_result, calls, vrule,
                   entry_vars, invoke_vars>>

NextRule == RuleIsValid

SpecRule == InitRule /\ [][NextRule]_vars

(***************************************************************************)
(* VimageEntry and VimageValue on their own: is_valid of an entry made of  *)
(* a str key and a dict value.                                             *)
(***************************************************************************)
MaxValueKeys == 3

ValueKinds == {type_size, type_dimensions, type_aspect_ratio, "MODE"}

ValuePayloads == {PyInt(100), PyInt(0), PyFloat(133)}

\* the dict of the given key: value items
ToDict(items) ==
    PyDict([m \in 1..Len(items) |-> items[m].key], [m \in 1..Len(items) |-> items[m].value])

\* the dicts of at most n rules
TestValues(n) == {ToDict(items) : items \in ItemSeqs(ValueKinds, ValuePayloads, n)}

TestEntryKeys == {K_app, K_no_model, K_foreign_field, StrKey(<<>>)}

InitEntry ==
    /\ settings = AbsentSetting
    /\ pc = "entry"
    /\ idx = 0
    /\ exc = NoError
    /\ raised_in = ""
    /\ validated = <<>>
    /\ info = <<>>
    /\ draft_registry = <<>>
    /\ registry = <<>>
    /\ validators = InitialValidators
    /\ vkey = NoKey
    /\ key_result = NoKeyResult
    /\ calls = 0
    /\ vrule = NoRule
    /\ rule_result = NoError
    /\ ventry \in [key : TestEntryKeys, value : TestValues(MaxValueKeys)]
    /\ entry_result = NoEntryResult
    /\ image = NoImage
    /\ outcome = NoOutcome
    /\ frames = NoFrames

\* VimageValue(value).is_valid()
ValueIsValid ==
    /\ pc = "entry"
    /\ entry_result' = [entry_result EXCEPT !.value_is_valid = value_is_valid(ventry.value)]
    /\ pc' = "value_checked"
    /\ UNCHANGED <<settings, idx, exc, raised_in, validated, info, draft_registry,
                   registry, validators, vkey, key_result, calls, vrule, rule_result,
                   ventry, invoke_vars>>

\* VimageEntry(key, value).is_valid()
EntryIsValid ==
    /\ pc = "value_checked"
    /\ entry_result' = [entry_result EXCEPT
                            !.is_valid = entry_is_valid(ventry.key, ventry.value)]
    /\ pc' = "entry_checked"
    /\ UNCHANGED <<settings, idx, exc, raised_in, validated, info, draft_registry,
                   registry, validators, vkey, key_result, calls, vrule, rule_result,
                   ventry, invoke_vars>>

NextEntry ==
    \/ ValueIsValid
    \/ EntryIsValid

SpecEntry == InitEntry /\ [][NextEntry]_vars

(***************************************************************************)
(* One call of a validator: a rule that is_valid accepts, the closure      *)
(* generate_validator returns for it, called on an image.                  *)
(***************************************************************************)
MaxInvokeKeys == 2

\* dicts of at most n items with distinct keys: operators with the operands, and
\* "err" with the texts
RECURSIVE OperatorDicts(_, _, _)
OperatorDicts(operands, texts, n) ==
    IF n = 0 THEN {PyDict(<<>>, <<>>)}
    ELSE LET shorter == OperatorDicts(operands, texts, n - 1)
         IN  {dict \in (shorter \cup
             {PyDict(Append(d.ks, k), Append(d.l, v)) :
                d \in {x \in shorter : Len(x.ks) = n - 1},
                k \in Range(valid_operators_strings), v \in operands}
             \cup
             {PyDict(Append(d.ks, err), Append(d.l, PyStr(t))) :
                d \in {x \in shorter : Len(x.ks) = n - 1}, t \in texts}) :
            \A i, j \in 1..Len(dict.ks) : dict.ks[i] = dict.ks[j] => i = j}

ErrTexts == {"custom msg", ""}

SizeRules(n) ==
    {PyInt(100), PyInt(0)} \cup OperatorDicts({PyInt(100), PyInt(101)}, ErrTexts, n)

AspectRatioRules(n) ==
    {PyFloat(133), PyFloat(100), PyInt(1)}
    \cup OperatorDicts({PyFloat(100), PyFloat(133)}, ErrTexts, n)

DimensionsOperands == {PyTuple(<<PyInt(5), PyInt(5)>>), PyTuple(<<PyInt(4), PyInt(3)>>)}

WidthHeightRules ==
    LET gt4 == PyDict(<<"gt">>, <<PyInt(4)>>)
        lt5e == PyDict(<<"lt", err>>, <<PyInt(5), PyStr("too tall")>>)
        gte5e == PyDict(<<err, "gte">>, <<PyStr("too narrow"), PyInt(5)>>)
        eq5 == PyDict(<<"eq", err>>, <<PyInt(5), PyStr("")>>)
        ne5 == PyDict(<<"ne">>, <<PyInt(5)>>)
        bad == PyDict(<<"lt">>, <<PyInt(0)>>)
    IN  {PyDict(<<"w">>, <<gt4>>), PyDict(<<"h">>, <<lt5e>>), PyDict(<<"w">>, <<bad>>),
         PyDict(<<"w", "h">>, <<gte5e, lt5e>>), PyDict(<<"h", "w">>, <<eq5, ne5>>),
         PyDict(<<"w", "h">>, <<gt4, ne5>>), PyDict(<<"w", "h">>, <<eq5, lt5e>>)}

DimensionsRules(n) ==
    DimensionsOperands \cup WidthHeightRules
    \cup {PyList(<<>>), PyList(<<PyInt(5)>>)}
    \cup {PyList(<<a>>) : a \in DimensionsOperands \cup {PyTuple(<<PyInt(5), PyInt(3)>>)}}
    \cup {PyList(<<a, b>>) : a, b \in DimensionsOperands \cup {PyTuple(<<PyInt(5), PyInt(3)>>)}}
    \cup OperatorDicts(DimensionsOperands, ErrTexts, n)

FormatOperands ==
    {PyStr("jpeg"), PyStr("png"), PyStr("PNG"), PyStr("exe"),
     PyList(<<PyStr("jpeg"), PyStr("png")>>), PyList(<<PyStr("png"), PyStr("gif")>>)}

FormatRules(n) == FormatOperands \cup OperatorDicts(FormatOperands, ErrTexts, n)

\* the rules of the four kinds that is_valid accepts
ValidRules(n) ==
    {r \in ([name : {type_size}, rule : SizeRules(n)]
            \cup [name : {type_dimensions}, rule : DimensionsRules(n)]
            \cup [name : {type_format}, rule : FormatRules(n)]
            \cup [name : {type_aspect_ratio}, rule : AspectRatioRules(n)]) :
        rule_is_valid(r.name, r.rule) = NoError}

\* images of 99, 100, 100 and 101 whole KB, of four shapes, of two formats
TestImages ==
    {[size |-> s, width |-> d[1], height |-> d[2], format |-> f] :
        s \in {99 * 1024 + 1023, 100 * 1024, 100 * 1024 + 1023, 101 * 1024},
        d \in {<<5, 5>>, <<4, 3>>, <<3, 4>>, <<5, 3>>},
        f \in {"JPEG", "PNG"}}

InitInvoke ==
    /\ settings = AbsentSetting
    /\ pc = "invoke"
    /\ idx = 0
    /\ exc = NoError
    /\ raised_in = ""
    /\ validated = <<>>
    /\ info = <<>>
    /\ draft_registry = <<>>
    /\ registry = <<>>
    /\ validators = InitialValidators
    /\ vkey = NoKey
    /\ key_result = NoKeyResult
    /\ calls = 0
    /\ vrule \in ValidRules(MaxInvokeKeys)
    /\ rule_result = NoError
    /\ ventry = NoEntry
    /\ entry_result = NoEntryResult
    /\ image \in TestImages
    /\ outcome = NoOutcome
    /\ frames = NoFrames

\* validator(value): one call of the validator of vrule on the image
Invoke ==
    /\ pc = "invoke"
    /\ outcome' = validator(vrule.name, vrule.rule, image)
    /\ pc' = "invoked"
    /\ UNCHANGED <<settings, idx, exc, raised_in, validated, info, draft_registry,
                   registry, validators, vkey, key_result, calls, vrule, rule_result,
                   entry_vars, image, frames>>

NextInvoke == Invoke

SpecInvoke == InitInvoke /\ [][NextInvoke]_vars

(***************************************************************************)
(* sort_info, build_draft_registry and build_registry are static methods:  *)
(* here they run on a bucket of entry_info dicts given as such, as in      *)
(* test_sort_info, of any specificities, fields and mappings.              *)
(***************************************************************************)
MaxSortEntries == 3

\* the entry_info dicts the n-th declared entry of the bucket can be
SortEntryChoices(n) ==
    LET f_img == Field("myapp", "MyModel", "img")
        f_image == Field("myapp", "AnotherModel", "image")
        size == [k |-> type_size, v |-> Validator(type_size, PyInt(100), n)]
        format == [k |-> type_format, v |-> Validator(type_format, PyStr("png"), n)]
    IN  [app_label : {"myapp"},
         specificity : 1..3,
         fields : {<<f_img>>, <<f_img, f_image>>},
         mapping : {<<size>>, <<size, format>>}]

\* the buckets of exactly n entries, the m-th made from the m-th declared entry
RECURSIVE BucketsOfLen(_)
BucketsOfLen(n) ==
    IF n = 0 THEN {<<>>}
    ELSE {Append(b, e) : b \in BucketsOfLen(n - 1), e \in SortEntryChoices(n)}

InitSort ==
    /\ settings = AbsentSetting
    /\ pc = "sort_info"
    /\ idx = 0
    /\ exc = NoError
    /\ raised_in = ""
    /\ validated = <<>>
    /\ \E n \in 1..MaxSortEntries :
        \E b \in BucketsOfLen(n) : info = <<[app_label |-> "myapp", entries |-> b]>>
    /\ draft_registry = <<>>
    /\ registry = <<>>
    /\ validators = InitialValidators
    /\ vkey = NoKey
    /\ key_result = NoKeyResult
    /\ calls = 0
    /\ vrule = NoRule
    /\ rule_result = NoError
    /\ ventry = NoEntry
    /\ entry_result = NoEntryResult
    /\ image = NoImage
    /\ outcome = NoOutcome
    /\ frames = NoFrames

NextSort == SortInfo \/ BuildDraftRegistry \/ BuildRegistry \/ Attach

SpecSort == InitSort /\ [][NextSort]_vars

(***************************************************************************)
(* Calls of the attached validators after start-up.  Django calls          *)
(* field.validators on every upload; calls in different threads interleave *)
(* between the statements of validator(value).  A frame holds the locals   *)
(* of one call: the validator called, as the field and the position in     *)
(* field.validators, the argument, the rebound value, the tests and err,   *)
(* and what the call returned or raised.  self.rule is read through the    *)
(* validator each time the code reads it.                                  *)
(***************************************************************************)
Threads == {"t1", "t2"}

ServingConfigs ==
    { <<[key |-> K_app,
         value |-> PyDict(<<type_size, type_format>>,
                          <<PyDict(<<"lt", err>>, <<PyInt(100), PyStr("too big")>>),
                            PyStr("png")>>)]>>,
      <<[key |-> K_app, value |-> V_size],
        [key |-> K_field,
         value |-> PyDict(<<type_dimensions, type_size>>,
                          <<PyList(<<PyTuple(<<PyInt(5), PyInt(5)>>),
                                     PyTuple(<<PyInt(4), PyInt(3)>>)>>),
                            PyDict(<<"gte">>, <<PyInt(100)>>)>>)]>> }

ServingImages ==
    { [size |-> 99 * 1024, width |-> 5, height |-> 5, format |-> "PNG"],
      [size |-> 100 * 1024, width |-> 5, height |-> 3, format |-> "JPEG"],
      [size |-> 101 * 1024, width |-> 4, height |-> 3, format |-> "PNG"] }

IdleFrame ==
    [pc |-> "idle", field |-> Field("", "", ""), pos |-> 0, image |-> NoImage,
     value |-> [n |-> 0, w |-> 0, h |-> 0, s |-> ""],
     result |-> [passed |-> TRUE, err |-> ""], outcome |-> NoOutcome]

\* field.validators of every field after add_validators ran on the registry
attached(reg) ==
    [f \in AllImageFields |->
        InitialValidators[f] \o (IF f \in DictKeys(reg) THEN DictGet(reg, f) ELSE <<>>)]

InitConcurrent ==
    /\ \E c \in ServingConfigs :
        /\ settings = DictSetting(c)
        /\ validated = [n \in 1..Len(c) |-> n]
        /\ info = sort_info(build_info(c).info)
    /\ draft_registry = build_draft_registry(info)
    /\ registry = build_registry(draft_registry)
    /\ validators = attached(registry)
    /\ pc = "serving"
    /\ idx = Len(registry) + 1
    /\ exc = NoError
    /\ raised_in = ""
    /\ vkey = NoKey
    /\ key_result = NoKeyResult
    /\ calls = 0
    /\ vrule = NoRule
    /\ rule_result = NoError
    /\ ventry = NoEntry
    /\ entry_result = NoEntryResult
    /\ image = NoImage
    /\ outcome = NoOutcome
    /\ frames = [t \in Threads |-> IdleFrame]

\* the validator a frame is a call of
Called(frame) == validators[frame.field][frame.pos]

\* a variant that keeps the value under test in one place for all the calls
RebindValueShared(t) ==
    /\ frames[t].pc = "called"
    /\ frames' = [u \in Threads |->
                    IF u = t
                    THEN [frames[t] EXCEPT
                            !.pc = "measured",
                            !.value = value_under_test(Called(frames[t]).kind, frames[t].image)]
                    ELSE [frames[u] EXCEPT
                            !.value = value_under_test(Called(frames[t]).kind, frames[t].image)]]
    /\ UNCHANGED <<settings, pc, idx, exc, raised_in, validated, info, draft_registry,
                   registry, validators, vkey, key_result, calls, vrule, rule_result,
                   entry_vars, image, outcome>>

\* validator(value): thread t calls a validator of a field on an image
CallValidator(t) ==
    /\ pc = "serving"
    /\ frames[t].pc = "idle"
    /\ \E f \in AllImageFields, img \in ServingImages :
        \E n \in 1..Len(validators[f]) :
            /\ validators[f][n].kind \in Range(valid_types_strings)
            /\ frames' = [frames EXCEPT ![t] =
                            [IdleFrame EXCEPT !.pc = "called", !.field = f, !.pos = n,
                                              !.image = img]]
    /\ UNCHANGED <<settings, pc, idx, exc, raised_in, validated, info, draft_registry,
                   registry, validators, vkey, key_result, calls, vrule, rule_result,
                   entry_vars, image, outcome>>

\* value = value.size // 1024, width, height = get_image_dimensions(value), ...
RebindValue(t) ==
    /\ frames[t].pc = "called"
    /\ frames' = [frames EXCEPT
                    ![t].pc = "measured",
                    ![t].value = value_under_test(Called(frames[t]).kind, frames[t].image)]
    /\ UNCHANGED <<settings, pc, idx, exc, raised_in, validated, info, draft_registry,
                   registry, validators, vkey, key_result, calls, vrule, rule_result,
                   entry_vars, image, outcome>>

\* tests, err = ...: the tests of the rule on the value
RunTests(t) ==
    /\ frames[t].pc = "measured"
    /\ frames' = [frames EXCEPT
                    ![t].pc = "tested",
                    ![t].result = run_tests(Called(frames[t]).kind, Called(frames[t]).rule,
                                            frames[t].value)]
    /\ UNCHANGED <<settings, pc, idx, exc, raised_in, validated, info, draft_registry,
                   registry, validators, vkey, key_result, calls, vrule, rule_result,
                   entry_vars, image, outcome>>

\* if not test_condition(tests): ... raise ValidationError(error); else return None
RaiseOrReturn(t) ==
    /\ frames[t].pc = "tested"
    /\ frames' = [frames EXCEPT
                    ![t].pc = "returned",
                    ![t].outcome = raise_or_return(Called(frames[t]).kind,
                                                   Called(frames[t]).rule,
                                                   frames[t].value, frames[t].result)]
    /\ UNCHANGED <<settings, pc, idx, exc, raised_in, validated, info, draft_registry,
                   registry, validators, vkey, key_result, calls, vrule, rule_result,
                   entry_vars, image, outcome>>

\* the frame of a finished call is dropped
DropFrame(t) ==
    /\ frames[t].pc = "returned"
    /\ frames' = [frames EXCEPT ![t] = IdleFrame]
    /\ UNCHANGED <<settings, pc, idx, exc, raised_in, validated, info, draft_registry,
                   registry, validators, vkey, key_result, calls, vrule, rule_result,
                   entry_vars, image, outcome>>

NextConcurrent ==
    \E t \in Threads :
        \/ CallValidator(t)
        \/ RebindValue(t)
        \/ RunTests(t)
        \/ RaiseOrReturn(t)
        \/ DropFrame(t)

SpecConcurrent == InitConcurrent /\ [][NextConcurrent]_vars

(***************************************************************************)
(* Properties of the registry build.                                       *)
(***************************************************************************)
\* build_draft_registry has just returned: info is sorted and the draft registry
\* built, and no later step assigns either
Drafted == pc = "build_registry"

InfoEntries == FlattenBuckets(info)

EntryKinds(e) == DictKeys(e.mapping)

\* the position in the setting of the entry an entry_info was made from
EntrySrc(e) == e.mapping[1].v.src

DraftOf(f) == DictGet(draft_registry, f)

\* b is merged after a: it is more specific, or as specific and declared later
MergedAfter(b, a) ==
    \/ b.specificity > a.specificity
    \/ b.specificity = a.specificity /\ EntrySrc(b) > EntrySrc(a)

\* the entries of the app of a, other than a, that resolve to f, declare kind k
\* and are merged after a
LaterDeclarers(a, f, k) ==
    {c \in Range(InfoEntries) :
        /\ c.app_label = a.app_label
        /\ f \in Range(c.fields)
        /\ k \in EntryKinds(c)
        /\ MergedAfter(c, a)}

\* C1 as stated: of two entries of one app that resolve to f with specificities
\* s1 < s2, the s2 entry's validator is the one kept for f under every kind the s2
\* entry declares, and the s1 entry's under every kind only the s1 entry declares.
C1_Original ==
    Drafted =>
        \A a, b \in Range(InfoEntries) :
            (a.app_label = b.app_label /\ a.specificity < b.specificity) =>
                \A f \in Range(a.fields) \cap Range(b.fields) :
                    /\ \A k \in EntryKinds(b) :
                            DictGet(DraftOf(f), k) = DictGet(b.mapping, k)
                    /\ \A k \in EntryKinds(a) \ EntryKinds(b) :
                            DictGet(DraftOf(f), k) = DictGet(a.mapping, k)

\* C1 amended: of two entries of one app that resolve to f with specificities
\* s1 < s2, the validator kept for f under a kind the s2 entry declares is never the
\* s1 entry's, and it is the s2 entry's unless an entry that resolves to f and is
\* merged after the s2 entry declares the kind too; under a kind the s1 entry
\* declares and neither the s2 entry nor any entry merged after the s1 entry and
\* resolving to f declares, the s1 entry's validator is kept.
C1_SpecificityMonotonicity ==
    Drafted =>
        \A a, b \in Range(InfoEntries) :
            (a.app_label = b.app_label /\ a.specificity < b.specificity) =>
                \A f \in Range(a.fields) \cap Range(b.fields) :
                    /\ \A k \in EntryKinds(b) :
                        /\ k \in DictKeys(DraftOf(f))
                        /\ DictGet(DraftOf(f), k).src # EntrySrc(a)
                        /\ LaterDeclarers(b, f, k) = {} =>
                                DictGet(DraftOf(f), k) = DictGet(b.mapping, k)
                    /\ \A k \in EntryKinds(a) \ EntryKinds(b) :
                        /\ k \in DictKeys(DraftOf(f))
                        /\ LaterDeclarers(a, f, k) = {} =>
                                DictGet(DraftOf(f), k) = DictGet(a.mapping, k)

\* C1 witness: a field of two entries with s1 < s2 keeps the s2 entry's validator
\* under a kind both declare and the s1 entry's under a kind only the s1 entry declares
C1_Witness ==
    /\ Drafted
    /\ \E a, b \in Range(InfoEntries) :
        /\ a.app_label = b.app_label
        /\ a.specificity < b.specificity
        /\ \E f \in Range(a.fields) \cap Range(b.fields) :
            /\ \E k \in EntryKinds(a) \cap EntryKinds(b) :
                    DictGet(DraftOf(f), k) = DictGet(b.mapping, k)
            /\ \E k \in EntryKinds(a) \ EntryKinds(b) :
                    DictGet(DraftOf(f), k) = DictGet(a.mapping, k)

\* the entries that resolve to f, in the order they are merged
EntriesOf(f) == SelectSeq(InfoEntries, LAMBDA e : f \in Range(e.fields))

RECURSIVE FoldMappings(_, _, _)
FoldMappings(target, entries, n) ==
    IF n > Len(entries) THEN target
    ELSE FoldMappings(DictUpdateFrom(target, entries[n].mapping, 1), entries, n + 1)

\* an app-level entry a and a narrower entry b are the only entries of their app
OnlyTwoOfApp(a, b) ==
    /\ a.app_label = b.app_label
    /\ a.specificity = 1
    /\ b.specificity > 1
    /\ \A c \in Range(InfoEntries) : c.app_label = a.app_label => c \in {a, b}

\* C2: the rule-kind map of a field is made of the mappings of the entries that
\* resolve to that field and of no other entry; with an app-level entry and one
\* narrower entry in an app, the fields of the narrower entry carry the kinds of
\* both and every other field of the app carries exactly the app-level mapping.
C2_MergeFrame ==
    Drafted =>
        /\ \A n \in 1..Len(draft_registry) :
                draft_registry[n].v = FoldMappings(<<>>, EntriesOf(draft_registry[n].k), 1)
        /\ \A a, b \in Range(InfoEntries) :
                OnlyTwoOfApp(a, b) =>
                    /\ \A f \in Range(b.fields) :
                            DictKeys(DraftOf(f)) = EntryKinds(a) \cup EntryKinds(b)
                    /\ \A f \in Range(a.fields) \ Range(b.fields) :
                            DraftOf(f) = a.mapping

\* C2 witness: the narrower entry adds a kind to its fields that a sibling field,
\* initialised from the same app-level mapping, does not get
C2_Witness ==
    /\ Drafted
    /\ \E a, b \in Range(InfoEntries) :
        /\ OnlyTwoOfApp(a, b)
        /\ EntryKinds(b) \ EntryKinds(a) # {}
        /\ \E f \in Range(b.fields), g \in Range(a.fields) \ Range(b.fields) :
            /\ DictKeys(DraftOf(f)) = EntryKinds(a) \cup EntryKinds(b)
            /\ DictKeys(DraftOf(g)) = EntryKinds(a)

(***************************************************************************)
(* Properties of start-up: configuration_check and ready.                  *)
(***************************************************************************)
\* the error, if any, of validating the n-th entry of the setting
EntryError(n) == check_entry(settings.items[n].key, settings.items[n].value)

\* add_validators has been called
AddValidatorsStarted ==
    \/ pc \in {"sort_info", "build_draft_registry", "build_registry", "attach", "done"}
    \/ raised_in = "add_validators"

ShapeErrors == {"MissingConfigError", "InvalidConfigValueError", "EmptyConfigError"}

\* C3: once configuration_check has tested the shape of the setting, an absent
\* setting has raised MissingConfigError, otherwise a setting that is not a dict
\* has raised InvalidConfigValueError, otherwise an empty dict has raised
\* EmptyConfigError, each before any entry was validated; a non-empty dict raises
\* none of the three.
C3_ShapeOrder ==
    pc # "ready" =>
        /\ ~settings.defined =>
            /\ pc = "raised" /\ raised_in = "configuration_check"
            /\ exc.exc = "MissingConfigError"
            /\ validated = <<>>
        /\ (settings.defined /\ settings.type # "dict") =>
            /\ pc = "raised" /\ raised_in = "configuration_check"
            /\ exc.exc = "InvalidConfigValueError"
            /\ validated = <<>>
        /\ (settings.defined /\ settings.type = "dict" /\ settings.items = <<>>) =>
            /\ pc = "raised" /\ raised_in = "configuration_check"
            /\ exc.exc = "EmptyConfigError"
            /\ validated = <<>>
        /\ (settings.defined /\ settings.type = "dict" /\ settings.items # <<>>) =>
            exc.exc \notin ShapeErrors

\* C3 witness: a setting that is not a dict, and has no items either, was rejected
\* with InvalidConfigValueError and no entry validated
C3_Witness ==
    /\ pc = "raised"
    /\ settings.defined /\ settings.type # "dict" /\ settings.items = <<>>
    /\ exc.exc = "InvalidConfigValueError"
    /\ validated = <<>>

\* C4: the entries validated so far are the first entries of the setting, in
\* declaration order, every one but the last of them is valid, no error is held
\* while the loop goes on, and an error of the loop is the error of the last entry
\* validated: the first invalid entry of the setting.
C4_FirstInvalidEntryEnds ==
    /\ \A n \in 1..Len(validated) : validated[n] = n
    /\ \A n \in 1..(Len(validated) - 1) : EntryError(n) = NoError
    /\ pc = "entries" => (exc = NoError /\ idx = Len(validated) + 1)
    /\ (pc = "raised" /\ raised_in = "configuration_check" /\ validated # <<>>) =>
        /\ exc # NoError
        /\ exc = EntryError(Len(validated))
    /\ (pc = "add_validators" \/ AddValidatorsStarted) =>
        /\ Len(validated) = Len(settings.items)
        /\ EntryError(Len(validated)) = NoError

\* C4 witness: the first of two invalid entries ended the check, the second was
\* never validated
C4_Witness ==
    /\ pc = "raised"
    /\ raised_in = "configuration_check"
    /\ Len(settings.items) = 2
    /\ validated = <<1>>
    /\ EntryError(2) # NoError
    /\ exc = EntryError(1)

\* C5: when configuration_check has raised, start-up has ended there with the
\* validators of every field as they were and nothing built; add_validators is
\* started only for a setting that configuration_check accepts.
C5_AttachOnlyAfterCheck ==
    /\ raised_in = "configuration_check" =>
        /\ pc = "raised"
        /\ validators = InitialValidators
        /\ info = <<>> /\ draft_registry = <<>> /\ registry = <<>>
    /\ (AddValidatorsStarted \/ validators # InitialValidators) =>
        /\ check_config_shape(settings) = NoError
        /\ \A n \in 1..Len(settings.items) : EntryError(n) = NoError

\* C5 witness: configuration_check raised for a setting add_validators would
\* have built a non-empty registry from
C5_Witness ==
    /\ pc = "raised"
    /\ raised_in = "configuration_check"
    /\ validated # <<>>
    /\ build_info(settings.items).exc = "none"
    /\ build_info(settings.items).info # <<>>
    /\ validators = InitialValidators

TaxonomyKinds ==
    {"MissingConfigError", "InvalidConfigValueError", "EmptyConfigError",
     "InvalidKeyError", "InvalidValueError"}

\* the value has a DIMENSIONS rule with a w or h key whose sub-rule is not a dict
HasNonDictSubRule(value) ==
    \E n \in 1..Len(value.ks) :
        /\ value.ks[n] = type_dimensions
        /\ value.l[n].t = "dict"
        /\ value.l[n].ks # <<>>
        /\ Range(value.l[n].ks) \subseteq width_height_operators
        /\ \E m \in 1..Len(value.l[n].ks) : value.l[n].l[m].t # "dict"

\* C6: every error of configuration_check is one of the five kinds of the
\* taxonomy; a key that is not a str gives InvalidKeyError, and under a valid key a
\* value that is not a dict, or whose w/h sub-rule is not a dict, gives
\* InvalidValueError.
C6_TaxonomyOnly ==
    (pc = "raised" /\ raised_in = "configuration_check") =>
        /\ exc.exc \in TaxonomyKinds
        /\ validated # <<>> =>
            LET e == settings.items[Len(validated)]
            IN  /\ ~e.key.isstr => exc.exc = "InvalidKeyError"
                /\ (e.key.isstr /\ key_is_valid(e.key) = NoError /\ e.value.t # "dict") =>
                        exc.exc = "InvalidValueError"
                /\ (e.key.isstr /\ key_is_valid(e.key) = NoError
                        /\ HasNonDictSubRule(e.value)) =>
                        exc.exc = "InvalidValueError"

(***************************************************************************)
(* Properties of VimageKey.                                                *)
(***************************************************************************)
\* the dot-separated words of the key under test
KeyWords == split_key(vkey)

\* the names of the image fields of the models of an app
ImageFieldNamesOfApp(app) ==
    {f.name : f \in {g \in AllImageFields : g.app = app}}

\* the first of the eight steps the key under test fails, 0 if it passes them all
FirstFailingStep ==
    LET n == Len(KeyWords)
        app == KeyWords[1]
    IN  IF ~vkey.isstr \/ vkey.toks = <<>> THEN 1
        ELSE IF \E w \in Range(KeyWords) : ~isidentifier(w) \/ iskeyword(w) THEN 2
        ELSE IF n < 2 \/ n > 4 THEN 3
        ELSE IF KeyWords[2] # MODELS_MODULE_NAME THEN 4
        ELSE IF app \notin InstalledApps THEN 5
        ELSE IF ~HasModelsModule(app) THEN 6
        ELSE IF n >= 3 /\ KeyWords[3] \notin Range(AppModels(app)) THEN 7
        ELSE IF n = 4 /\ KeyWords[4] \notin ImageFieldNamesOfApp(app) THEN 8
        ELSE 0

\* the error each step raises
StepError(step) ==
    CASE step = 0 -> NoError
      [] step = 1 -> Raise("InvalidKeyError", "non_empty_str")
      [] step = 2 -> Raise("InvalidKeyError", "dotted_path")
      [] step = 3 -> Raise("InvalidKeyError", "key_length")
      [] step = 4 -> Raise("InvalidKeyError", "second_word")
      [] step = 5 -> Raise("InvalidKeyError", "no_app")
      [] step = 6 -> Raise("InvalidKeyError", "no_models_module")
      [] step = 7 -> Raise("InvalidKeyError", "no_model")
      [] OTHER    -> Raise("InvalidKeyError", "no_field")

\* C7: the result of is_valid is the InvalidKeyError of the first step the key
\* fails, in the order non-empty str, identifiers that are not keywords, 2 to 4
\* words, second word, app, models module, model, image field name; a key that
\* fails no step is accepted.
C7_KeyCheckOrder ==
    pc \in {"key_checked", "key_resolved"} =>
        key_result.is_valid = StepError(FirstFailingStep)

\* C7 witness: a key of five words whose second word is not the models module was
\* rejected for the number of its words
C7_Witness ==
    /\ pc = "key_checked"
    /\ Len(KeyWords) = 5
    /\ KeyWords[2] # MODELS_MODULE_NAME
    /\ KeyWords[1] \notin InstalledApps
    /\ key_result.is_valid = Raise("InvalidKeyError", "key_length")

\* C8: a key of four words that is_valid accepts names an image field of the
\* model its third word names.
C8_FieldOfNamedModel ==
    (pc \in {"key_checked", "key_resolved"}
        /\ Len(KeyWords) = 4
        /\ key_result.is_valid = NoError) =>
            \E f \in Range(ModelFields(KeyWords[1], KeyWords[3])) :
                f.image /\ f.name = KeyWords[4]

\* C9: get_specificity gives the number of words less one for 2, 3 or 4 words and
\* 0 otherwise; get_fields gives no field at specificity 0, the image fields of
\* every model of the app at 1, the image fields of the model named last at 2 and
\* the one field named last, of the model named before it, at 3, whenever the app,
\* model and field named exist; every call gives the same result.
C9_SpecificityAndFields ==
    pc = "key_resolved" =>
        LET n == Len(KeyWords)
            app == KeyWords[1]
        IN  /\ key_result.specificity = (IF n \in {2, 3, 4} THEN n - 1 ELSE 0)
            /\ n \notin {2, 3, 4} => key_result.fields = Fields(<<>>)
            /\ (n = 2 /\ app \in InstalledApps) =>
                /\ key_result.fields.exc = "none"
                /\ Range(key_result.fields.fields) = {g \in AllImageFields : g.app = app}
                /\ Len(key_result.fields.fields)
                        = Cardinality({g \in AllImageFields : g.app = app})
            /\ (n = 3 /\ app \in InstalledApps /\ KeyWords[3] \in Range(AppModels(app))) =>
                /\ key_result.fields.exc = "none"
                /\ Range(key_result.fields.fields)
                        = {g \in AllImageFields : g.app = app /\ g.model = KeyWords[3]}
                /\ Len(key_result.fields.fields)
                        = Cardinality({g \in AllImageFields :
                                            g.app = app /\ g.model = KeyWords[3]})
            /\ (n = 4 /\ app \in InstalledApps /\ KeyWords[3] \in Range(AppModels(app))
                    /\ \E f \in Range(ModelFields(app, KeyWords[3])) : f.name = KeyWords[4]) =>
                key_result.fields = Fields(<<Field(app, KeyWords[3], KeyWords[4])>>)

\* C9 witness: the second call on a key of four words gave specificity 3 and the
\* one field named
C9_Witness ==
    /\ pc = "key_resolved"
    /\ calls = 2
    /\ Len(KeyWords) = 4
    /\ key_result.specificity = 3
    /\ key_result.fields = Fields(<<Field("myapp", "AnotherModel", "thumb")>>)

(***************************************************************************)
(* Properties of the validation rules.                                     *)
(***************************************************************************)
NonsensePairs ==
    { {"lt", "lte"}, {"gt", "gte"}, {"lt", "eq"}, {"gt", "eq"},
      {"lte", "eq"}, {"gte", "eq"}, {"ne", "eq"} }

\* C10: is_valid of a SIZE, DIMENSIONS, FORMAT or ASPECT_RATIO rule whose payload
\* is a dict with both keys of one of the seven nonsense pairs raises
\* InvalidValueError.
C10_NonsenseOperatorsRejected ==
    (pc = "rule_checked"
        /\ vrule.name \in {"SIZE", "DIMENSIONS", "FORMAT", "ASPECT_RATIO"}
        /\ vrule.rule.t = "dict"
        /\ \E pair \in NonsensePairs : pair \subseteq Range(vrule.rule.ks)) =>
            rule_result.exc = "InvalidValueError"

\* C10 witness: a FORMAT rule with values valid for ne and for eq was rejected
C10_Witness ==
    /\ pc = "rule_checked"
    /\ vrule.name = "FORMAT"
    /\ vrule.rule = PyDict(<<"ne", "eq">>, <<PyStr("png"), PyStr("png")>>)
    /\ rule_result = InvalidValue("nonsense_operators")

(***************************************************************************)
(* Properties of VimageValue and VimageEntry.                              *)
(***************************************************************************)
\* C11: is_valid of a value that declares both DIMENSIONS and ASPECT_RATIO raises
\* the InvalidValueError of the exclusion, whatever the payloads and the other
\* kinds, also when a rule declared before them has an invalid payload or an
\* unknown kind.
C11_ExclusiveKindsRejected ==
    (pc \in {"value_checked", "entry_checked"}
        /\ {"DIMENSIONS", "ASPECT_RATIO"} \subseteq Range(ventry.value.ks)) =>
            entry_result.value_is_valid = InvalidValue("nonsense_keys_together")

\* C11 witness: the exclusion was reported for a value whose first rule, a SIZE of
\* 0, is invalid on its own
C11_Witness ==
    /\ pc = "value_checked"
    /\ ventry.value = PyDict(<<"SIZE", "DIMENSIONS", "ASPECT_RATIO">>,
                             <<PyInt(0), PyInt(0), PyFloat(133)>>)
    /\ rule_is_valid("SIZE", PyInt(0)) # NoError
    /\ entry_result.value_is_valid = InvalidValue("nonsense_keys_together")

\* the positions of the rules of the value under test whose is_valid raises
FailingRules ==
    {n \in 1..Len(ventry.value.ks) :
        rule_is_valid(ventry.value.ks[n], ventry.value.l[n]) # NoError}

\* the first rule of the value under test whose is_valid raises
FirstFailingRule == CHOOSE n \in FailingRules : \A m \in FailingRules : n <= m

\* C18: is_valid of an entry raises the InvalidKeyError of its key when the key is
\* invalid, whatever the value; under a valid key it raises for an empty value,
\* otherwise for DIMENSIONS with ASPECT_RATIO, otherwise the error of the first rule
\* in declaration order whose is_valid raises, an unknown kind being such a rule;
\* otherwise nothing.
C18_KeyBeforeValue ==
    pc = "entry_checked" =>
        IF key_is_valid(ventry.key) # NoError
            THEN /\ entry_result.is_valid = key_is_valid(ventry.key)
                 /\ entry_result.is_valid.exc = "InvalidKeyError"
        ELSE IF ventry.value.ks = <<>>
            THEN entry_result.is_valid = InvalidValue("empty_value")
        ELSE IF {"DIMENSIONS", "ASPECT_RATIO"} \subseteq Range(ventry.value.ks)
            THEN entry_result.is_valid = InvalidValue("nonsense_keys_together")
        ELSE IF FailingRules # {}
            THEN /\ entry_result.is_valid
                        = rule_is_valid(ventry.value.ks[FirstFailingRule],
                                        ventry.value.l[FirstFailingRule])
                 /\ entry_result.is_valid.exc = "InvalidValueError"
                 /\ ventry.value.ks[FirstFailingRule] = "MODE" =>
                        entry_result.is_valid = InvalidValue("unknown_rule_kind")
        ELSE entry_result.is_valid = NoError

\* C18 witness: key and value are both invalid and the error is the key's
C18_Witness ==
    /\ pc = "entry_checked"
    /\ key_is_valid(ventry.key) # NoError
    /\ value_is_valid(ventry.value) # NoError
    /\ Len(ventry.value.ks) = 2
    /\ entry_result.is_valid = key_is_valid(ventry.key)
    /\ entry_result.is_valid.exc = "InvalidKeyError"

(***************************************************************************)
(* Properties of add_validators.                                           *)
(***************************************************************************)
\* C12: for a setting configuration_check accepts, add_validators raises nothing:
\* no exception ever comes out of add_validators.
C12_BuildInfallible ==
    ~(pc = "raised" /\ raised_in = "add_validators")

\* the rule kinds declared for f by the entries that resolve to it
KindsDeclaredFor(f) ==
    UNION {EntryKinds(e) : e \in {x \in Range(InfoEntries) : f \in Range(x.fields)}}

\* C13: once add_validators is done, the validators list of a field in the registry
\* is its list from before followed by the field's list in the registry, which has
\* one validator for each rule kind declared for the field; the list of a field no
\* entry resolves to is as before.  While the loop runs this holds of the fields
\* already passed, and the other lists are as before.
C13_AttachAppends ==
    pc \in {"attach", "done"} =>
        \A f \in AllImageFields :
            IF \E n \in 1..Len(registry) :
                    registry[n].k = f /\ (pc = "done" \/ n < idx)
            THEN /\ validators[f] = InitialValidators[f] \o DictGet(registry, f)
                 /\ {v.kind : v \in Range(DictGet(registry, f))} = KindsDeclaredFor(f)
                 /\ Len(DictGet(registry, f)) = Cardinality(KindsDeclaredFor(f))
                 /\ KindsDeclaredFor(f) # {}
            ELSE /\ validators[f] = InitialValidators[f]
                 /\ pc = "done" => KindsDeclaredFor(f) = {}

\* C13 witness: add_validators is done, one field got two validators after the one
\* it had, another field was left as it was
C13_Witness ==
    /\ pc = "done"
    /\ \E f, g \in AllImageFields :
        /\ Len(validators[f]) = 3
        /\ validators[f][1] = ExistingValidator
        /\ SubSeq(validators[f], 2, 3) = DictGet(registry, f)
        /\ g \notin DictKeys(registry)
        /\ validators[g] = <<ExistingValidator>>

(***************************************************************************)
(* Properties of the validators.                                           *)
(***************************************************************************)
Invoked(name) == pc = "invoked" /\ vrule.name = name

\* the operator holds between the observed value a and the operand b
OperatorHolds(opr, a, b) ==
    \/ opr \in {"lt", "lte"} /\ a < b
    \/ opr \in {"gt", "gte"} /\ a > b
    \/ opr \in {"lte", "gte", "eq"} /\ a = b
    \/ opr = "ne" /\ a # b

\* the size of the image in whole kilobytes
WholeKB == image.size \div 1024

\* C14: the Size validator compares the bytes of the image integer-divided by 1024.
\* For the rule N or {'eq': N} it returns for an image of N KB and raises a
\* ValidationError otherwise, whose message is the template with the observed size
\* followed by KB and the phrase "equal to NKB".  For a dict of operators it
\* returns exactly when every operator of the dict holds between the observed KB
\* and its operand.
C14_SizeBoundary ==
    Invoked(type_size) =>
        /\ vrule.rule.t = "int" \/ vrule.rule.ks = <<"eq">> =>
            LET N == IF vrule.rule.t = "int" THEN vrule.rule.i ELSE vrule.rule.l[1].i
            IN  IF WholeKB = N THEN outcome = [exc |-> "none", message |-> ""]
                ELSE outcome =
                    [exc |-> "ValidationError",
                     message |-> "<strong>[IMAGE SIZE]</strong> Validation error: <strong>"
                                 \o ToString(WholeKB)
                                 \o "KB</strong> does not meet validation rule: "
                                 \o "<strong>equal to " \o ToString(N) \o "KB</strong>."]
        /\ vrule.rule.t = "dict" =>
            (outcome.exc = "none" <=>
                \A n \in 1..Len(vrule.rule.ks) :
                    vrule.rule.ks[n] # err =>
                        OperatorHolds(vrule.rule.ks[n], WholeKB, vrule.rule.l[n].i))

\* C14 witness: the rule {'eq': 100} was called on an image one byte short of
\* 100 KB and raised with the template
C14_Witness ==
    /\ Invoked(type_size)
    /\ vrule.rule = PyDict(<<"eq">>, <<PyInt(100)>>)
    /\ image.size = 100 * 1024 - 1
    /\ outcome.exc = "ValidationError"
    /\ outcome.message =
        "<strong>[IMAGE SIZE]</strong> Validation error: <strong>99KB</strong> does not meet validation rule: <strong>equal to 100KB</strong>."

\* the tuples of a Dimensions list rule that equal the image in both components
MatchingTuples ==
    {n \in 1..Len(vrule.rule.l) :
        vrule.rule.l[n].l[1].i = image.width /\ vrule.rule.l[n].l[2].i = image.height}

\* C15: the Dimensions validator of a non-empty list of (w, h) tuples returns
\* exactly when some tuple of the list equals the (width, height) of the image in
\* both components, and raises a ValidationError exactly when none does.
C15_DimensionsListMatchAny ==
    Invoked(type_dimensions) /\ vrule.rule.t = "list" =>
        /\ vrule.rule.l # <<>>
        /\ outcome.exc = "none" <=> MatchingTuples # {}
        /\ outcome.exc = "ValidationError" <=> MatchingTuples = {}

\* C15 witness: the list [(5, 5), (4, 3)] was called on an image of 5 x 3, whose
\* width is in the first tuple and height in the second, and raised
C15_Witness ==
    /\ Invoked(type_dimensions)
    /\ vrule.rule = PyList(<<PyTuple(<<PyInt(5), PyInt(5)>>), PyTuple(<<PyInt(4), PyInt(3)>>)>>)
    /\ image.width = 5
    /\ image.height = 3
    /\ outcome.exc = "ValidationError"

\* the custom error strings a dict rule declares, in the dict or in the dicts of
\* its w and h keys
DeclaredErrs(rule) ==
    {rule.l[n].s : n \in {m \in 1..Len(rule.ks) : rule.ks[m] = err}}
    \cup UNION {{rule.l[n].l[k].s : k \in {m \in 1..Len(rule.l[n].ks) : rule.l[n].ks[m] = err}} :
                    n \in {m \in 1..Len(rule.ks) : rule.ks[m] \in width_height_operators}}

\* the tests of the called validator hold on the image
TestsPass ==
    run_tests(vrule.name, vrule.rule, value_under_test(vrule.name, image)).passed

\* C16: for every rule kind, a failing call of the validator of a dict rule that
\* declares a custom err raises a ValidationError whose message is exactly the
\* custom string; a failing call of a rule that declares none raises with the
\* template made of the kind name, the observed value and the humanized rule; a
\* passing call raises nothing, with or without err.
C16_CustomErrorPrecedence ==
    pc = "invoked" =>
        IF TestsPass THEN outcome = [exc |-> "none", message |-> ""]
        ELSE IF vrule.rule.t = "dict" /\ DeclaredErrs(vrule.rule) # {}
            THEN /\ outcome.exc = "ValidationError"
                 /\ outcome.message \in DeclaredErrs(vrule.rule)
        ELSE outcome =
                [exc |-> "ValidationError",
                 message |-> error_message_template(
                                trans_type(vrule.name),
                                prettify_value(vrule.name,
                                               value_under_test(vrule.name, image)),
                                humanize_rule(vrule.name, vrule.rule))]

(***************************************************************************)
(* Properties of validate_operators.                                       *)
(***************************************************************************)
\* the dicts validate_operators is given while is_valid checks the dict rule
OperatorDictsGiven ==
    IF vrule.rule.t # "dict" \/ vrule.name \notin {type_size, type_dimensions, type_aspect_ratio}
    THEN {}
    ELSE IF vrule.name = type_dimensions /\ has_width_height_keys(vrule.rule)
    THEN {d \in Range(vrule.rule.l) : d.t = "dict"}
    ELSE {vrule.rule}

\* d holds only the err key, or a nonsense pair of operators
OnlyErrOrNonsense(d) ==
    \/ d.ks = <<err>>
    \/ \E pair \in NonsensePairs : pair \subseteq Range(d.ks)

\* C20: when is_valid gives validate_operators a non-empty dict that holds only the
\* err key or a nonsense pair of operators, the dict rule itself or the dict under
\* w or h of a Dimensions rule, is_valid raises InvalidValueError.
C20_RejectionsApplyToGivenDict ==
    pc = "rule_checked" =>
        \A d \in OperatorDictsGiven :
            d.ks # <<>> /\ OnlyErrOrNonsense(d) => rule_result.exc = "InvalidValueError"

(***************************************************************************)
(* Properties of sort_info.                                                *)
(***************************************************************************)
\* after is before sorted by ascending specificity, entries of equal specificity
\* in the order they have in before
IsStableSortOf(after, before) ==
    /\ Len(after) = Len(before)
    /\ \E p \in [1..Len(before) -> 1..Len(before)] :
        /\ \A i \in 1..Len(after) : after[i] = before[p[i]]
        /\ \A i, j \in 1..Len(after) :
            i < j =>
                \/ after[i].specificity < after[j].specificity
                \/ after[i].specificity = after[j].specificity /\ p[i] < p[j]

\* one step of sort_info leaves every bucket stably sorted
SortInfoIsStable ==
    pc = "sort_info" =>
        /\ Len(info') = Len(info)
        /\ \A n \in 1..Len(info) :
            /\ info'[n].app_label = info[n].app_label
            /\ IsStableSortOf(info'[n].entries, info[n].entries)

\* entries a and b of one bucket, a merged before b, that both include f and declare k
Compete(a, b, f, k) ==
    /\ a.app_label = b.app_label
    /\ MergedAfter(b, a)
    /\ f \in Range(a.fields) \cap Range(b.fields)
    /\ k \in EntryKinds(a) \cap EntryKinds(b)

\* C19 as stated: sort_info sorts each bucket by ascending specificity, entries of
\* equal specificity in declaration order; of two entries of one bucket that include
\* a field, the validator kept for the field under every kind both declare is that
\* of the later declared one when their specificities are equal, and that of the
\* more specific one otherwise, wherever it was declared.
LaterEntryKept ==
    Drafted =>
        \A a, b \in Range(InfoEntries) :
            \A f \in AllImageFields, k \in Range(valid_types_strings) :
                Compete(a, b, f, k) => DictGet(DraftOf(f), k) = DictGet(b.mapping, k)

C19_Original == [][SortInfoIsStable]_vars /\ []LaterEntryKept

\* what the draft registry keeps for two competing entries
LaterEntryWins ==
    Drafted =>
        \A a, b \in Range(InfoEntries) :
            \A f \in AllImageFields, k \in Range(valid_types_strings) :
                Compete(a, b, f, k) =>
                    /\ DictGet(DraftOf(f), k) # DictGet(a.mapping, k)
                    /\ LaterDeclarers(b, f, k) = {} =>
                            DictGet(DraftOf(f), k) = DictGet(b.mapping, k)

\* C19 amended: sort_info sorts each bucket by ascending specificity, entries of
\* equal specificity in declaration order; of two entries of one bucket that include
\* a field and declare a kind, the later declared one when their specificities are
\* equal, the more specific one otherwise wherever it was declared, overrides the
\* other: the validator kept for the field under the kind is never the other's, and
\* it is the overriding entry's unless an entry that includes the field and is
\* merged after it declares the kind too.
C19_StableSort == [][SortInfoIsStable]_vars /\ []LaterEntryWins

\* C19 witness: in a bucket of three entries declared with specificities 2, 1, 1 the
\* field img keeps the SIZE validator of the first declared entry, and image, which
\* only the two others include, keeps that of the third
C19_Witness ==
    /\ Drafted
    /\ Len(InfoEntries) = 3
    /\ [n \in 1..3 |-> InfoEntries[n].specificity] = <<1, 1, 2>>
    /\ [n \in 1..3 |-> EntrySrc(InfoEntries[n])] = <<2, 3, 1>>
    /\ \A n \in 1..3 : (Field("myapp", "AnotherModel", "image") \in Range(InfoEntries[n].fields))
                            <=> n < 3
    /\ DictGet(DraftOf(Field("myapp", "MyModel", "img")), type_size).src = 1
    /\ DictGet(DraftOf(Field("myapp", "AnotherModel", "image")), type_size).src = 3

(***************************************************************************)
(* Properties of the calls of the attached validators.                     *)
(***************************************************************************)
\* no step of a call changes the registry, a validators list or a captured rule
CallsChangeNothing ==
    /\ registry' = registry
    /\ draft_registry' = draft_registry
    /\ info' = info
    /\ validators' = validators
    /\ settings' = settings

\* what a finished call returned or raised is what its validator gives on its image
OutcomeOfRuleAndImage ==
    \A t \in Threads :
        frames[t].pc = "returned" =>
            frames[t].outcome =
                validator(Called(frames[t]).kind, Called(frames[t]).rule, frames[t].image)

\* C17: the calls of the attached validators, in any number and interleaved in any
\* way with calls of the same or other validators on other images, change neither
\* the registry nor any field's validators list nor the rule a validator captured,
\* and what a call returns or raises, message included, depends only on the rule
\* of its validator and on its image.
C17_CallsPureAndIndependent ==
    [][pc = "serving" => CallsChangeNothing]_vars
    /\ [](pc = "serving" => OutcomeOfRuleAndImage)

\* C17 witness: a call of the SIZE validator of a field on an image of 100 KB has
\* raised with the custom error while a call of the same validator on an image of
\* 99 KB is under way in the other thread, its tests done
C17_Witness ==
    /\ pc = "serving"
    /\ frames["t1"].pc = "returned"
    /\ frames["t2"].pc = "tested"
    /\ frames["t1"].field = frames["t2"].field
    /\ frames["t1"].pos = frames["t2"].pos
    /\ frames["t1"].image.size = 100 * 1024
    /\ frames["t2"].image.size = 99 * 1024
    /\ frames["t1"].outcome = [exc |-> "ValidationError", message |-> "too big"]
    /\ frames["t2"].result.passed

(***************************************************************************)
(* Properties of the Dimensions and Format validators.                     *)
(***************************************************************************)
\* the called rule is a Dimensions dict keyed by w and h
WidthHeightCalled ==
    /\ Invoked(type_dimensions)
    /\ vrule.rule.t = "dict"
    /\ has_width_height_keys(vrule.rule)

\* the custom errors the sub-rules of a w/h rule declare, in declaration order
SubRuleErrs(rule) ==
    LET declares(n) == err \in Range(rule.l[n].ks)
        text(n) == rule.l[n].l[CHOOSE m \in 1..Len(rule.l[n].ks) : rule.l[n].ks[m] = err].s
        RECURSIVE from(_)
        from(n) == IF n > Len(rule.ks) THEN <<>>
                   ELSE (IF declares(n) THEN <<text(n)>> ELSE <<>>) \o from(n + 1)
    IN  from(1)

\* C21: a failing call of a w/h Dimensions rule raises with the two custom errors
\* joined by one space, in declaration order, when both sub-rules declare one, with
\* the one custom error alone when one sub-rule declares one, and with the template
\* only when neither declares one.
C21_WidthHeightErrorText ==
    WidthHeightCalled /\ ~TestsPass =>
        /\ outcome.exc = "ValidationError"
        /\ outcome.message =
            (IF Len(SubRuleErrs(vrule.rule)) = 2
             THEN SubRuleErrs(vrule.rule)[1] \o " " \o SubRuleErrs(vrule.rule)[2]
             ELSE IF Len(SubRuleErrs(vrule.rule)) = 1 THEN SubRuleErrs(vrule.rule)[1]
             ELSE error_message_template(
                    "DIMENSIONS",
                    prettify_value(type_dimensions,
                                   value_under_test(type_dimensions, image)),
                    humanize_rule(type_dimensions, vrule.rule)))

\* every comparison the called rule declares holds on the image: every operator
\* of a dict against its operand (both components of a tuple operand, every
\* element of a list operand), every element of a list rule, the scalar itself
EveryTestHolds ==
    LET rule == vrule.rule
        oprs(d) == {n \in 1..Len(d.ks) : d.ks[n] # err}
        fmt == Lower(image.format)
        side(k) == IF k = "w" THEN image.width ELSE image.height
        number == IF vrule.name = type_size THEN WholeKB
                  ELSE round_ratio(image.width, image.height)
    IN  CASE vrule.name \in {type_size, type_aspect_ratio} ->
                IF rule.t # "dict" THEN number = rule.i
                ELSE \A n \in oprs(rule) : OperatorHolds(rule.ks[n], number, rule.l[n].i)
          [] vrule.name = type_dimensions ->
                IF rule.t = "tuple"
                THEN image.width = rule.l[1].i /\ image.height = rule.l[2].i
                ELSE IF rule.t = "list"
                THEN \A n \in 1..Len(rule.l) :
                        image.width = rule.l[n].l[1].i /\ image.height = rule.l[n].l[2].i
                ELSE IF has_width_height_keys(rule)
                THEN \A n \in 1..Len(rule.ks) : \A m \in oprs(rule.l[n]) :
                        OperatorHolds(rule.l[n].ks[m], side(rule.ks[n]), rule.l[n].l[m].i)
                ELSE \A n \in oprs(rule) :
                        /\ OperatorHolds(rule.ks[n], image.width, rule.l[n].l[1].i)
                        /\ OperatorHolds(rule.ks[n], image.height, rule.l[n].l[2].i)
          [] OTHER ->
                IF rule.t = "str" THEN fmt = rule.s
                ELSE IF rule.t = "list" THEN \A n \in 1..Len(rule.l) : fmt = rule.l[n].s
                ELSE \A n \in oprs(rule) :
                        IF rule.l[n].t = "str" THEN OperatorHolds(rule.ks[n], fmt, rule.l[n].s)
                        ELSE \A m \in 1..Len(rule.l[n].l) :
                                OperatorHolds(rule.ks[n], fmt, rule.l[n].l[m].s)

\* some element of the called Format list rule is the format of the image
SomeFormatMatches ==
    \E n \in 1..Len(vrule.rule.l) : Lower(image.format) = vrule.rule.l[n].s

\* C22 as stated: the Dimensions list is the only shape with match-any semantics;
\* a call of any other shape, the Format list among them, returns only when every
\* one of its tests holds.
C22_Original ==
    /\ pc = "invoked"
    /\ ~(vrule.name = type_dimensions /\ vrule.rule.t = "list")
    /\ outcome.exc = "none"
    => EveryTestHolds

\* C22: the Dimensions list and the Format list are the two shapes with match-any
\* semantics: a Format list rule returns exactly when some element is the format
\* of the image; a call of any other shape (Size, Dimensions and AspectRatio
\* operator dicts, Dimensions tuple and w/h rules, Format dicts, the scalars)
\* returns only when every one of its tests holds.
C22_MatchAllButLists ==
    pc = "invoked" =>
        /\ vrule.name = type_format /\ vrule.rule.t = "list" =>
            (outcome.exc = "none" <=> SomeFormatMatches)
        /\ vrule.rule.t # "list" /\ outcome.exc = "none" => EveryTestHolds

\* C22 witness: the Format list ['jpeg', 'png'] was called on a PNG image and
\* returned, though the image is not a jpeg
C22_Witness ==
    /\ Invoked(type_format)
    /\ vrule.rule = PyList(<<PyStr("jpeg"), PyStr("png")>>)
    /\ image.format = "PNG"
    /\ outcome.exc = "none"
    /\ ~EveryTestHolds

(***************************************************************************)
(* Properties of ValidationRuleAspectRatio.is_valid.                       *)
(***************************************************************************)
\* the checked rule is an AspectRatio rule
AspectRatioChecked == pc = "rule_checked" /\ vrule.name = type_aspect_ratio

\* some operator of the dict maps to a float that is zero or negative
NonPositiveFloatOperand(d) ==
    \E n \in 1..Len(d.ks) : d.ks[n] # err /\ d.l[n].t = "float" /\ d.l[n].i <= 0

\* C23: is_valid of an AspectRatio rule raises InvalidValueError for a dict in
\* which some operator maps to a float that is zero or negative, as it does for
\* a scalar rule that is zero or negative.
C23_AspectRatioOperandsPositive ==
    AspectRatioChecked =>
        /\ vrule.rule.t = "float" /\ vrule.rule.i <= 0 =>
            rule_result.exc = "InvalidValueError"
        /\ vrule.rule.t = "dict" /\ NonPositiveFloatOperand(vrule.rule) =>
            rule_result.exc = "InvalidValueError"

(***************************************************************************)
(* Properties of the Dimensions operator dict.                             *)
(***************************************************************************)
\* the called rule is a Dimensions dict keyed directly by operators
DimensionsOperatorsCalled ==
    /\ Invoked(type_dimensions)
    /\ vrule.rule.t = "dict"
    /\ ~has_width_height_keys(vrule.rule)

\* C24: the validator of a Dimensions dict keyed by operators returns for an image
\* of W x H exactly when, for every operator op of the dict with operand (w, h),
\* both op(W, w) and op(H, h) hold; the rule {'ne': (w, h)} raises for every image
\* whose width is w or whose height is h.
C24_DimensionsDictComponentWise ==
    DimensionsOperatorsCalled =>
        /\ outcome.exc = "none" <=>
            \A n \in 1..Len(vrule.rule.ks) :
                vrule.rule.ks[n] # err =>
                    /\ OperatorHolds(vrule.rule.ks[n], image.width, vrule.rule.l[n].l[1].i)
                    /\ OperatorHolds(vrule.rule.ks[n], image.height, vrule.rule.l[n].l[2].i)
        /\ \A n \in 1..Len(vrule.rule.ks) :
                /\ vrule.rule.ks[n] = "ne"
                /\ \/ image.width = vrule.rule.l[n].l[1].i
                   \/ image.height = vrule.rule.l[n].l[2].i
                => outcome.exc # "none"

\* C24 witness: the rule {'ne': (5, 5)} was called on an image of 5 x 3, which is
\* not 5 x 5 but as wide, and raised
C24_Witness ==
    /\ DimensionsOperatorsCalled
    /\ vrule.rule = PyDict(<<"ne">>, <<PyTuple(<<PyInt(5), PyInt(5)>>)>>)
    /\ image.width = 5
    /\ image.height = 3
    /\ outcome.exc = "ValidationError"

(***************************************************************************)
(* Properties of the shorthand rules.                                      *)
(***************************************************************************)
\* the called rule is a shorthand payload: a Size int, a Dimensions tuple, a
\* Format string or list of strings, an AspectRatio float
ShorthandCalled ==
    /\ pc = "invoked"
    /\ \/ vrule.name = type_size /\ vrule.rule.t = "int"
       \/ vrule.name = type_dimensions /\ vrule.rule.t = "tuple"
       \/ vrule.name = type_format /\ vrule.rule.t \in {"str", "list"}
       \/ vrule.name = type_aspect_ratio /\ vrule.rule.t = "float"

\* the dict {'eq': p} of the called shorthand payload p
ExplicitEq == PyDict(<<"eq">>, <<vrule.rule>>)

\* C27: for every shorthand payload p that is_valid accepts and whose dict
\* {'eq': p} is_valid accepts too, the validator of p and the validator of
\* {'eq': p} return for exactly the same images.
C27_ShorthandIsExplicitEq ==
    ShorthandCalled /\ rule_is_valid(vrule.name, ExplicitEq) = NoError =>
        (outcome.exc = "none" <=> validator(vrule.name, ExplicitEq, image).exc = "none")

(***************************************************************************)
(* Properties of the Format string rule.                                   *)
(***************************************************************************)
\* C30: the validator of a Format string rule that is_valid accepts returns for
\* an image exactly when the rule and the format of the image are the same
\* ignoring letter case.
C30_FormatMatchedIgnoringCase ==
    Invoked(type_format) /\ vrule.rule.t = "str" =>
        (outcome.exc = "none" <=> Lower(vrule.rule.s) = Lower(image.format))

(***************************************************************************)
(* Properties of the built registry.                                       *)
(***************************************************************************)
\* the rule kinds of the validators of a list of the registry
KindsOf(validator_list) == {v.kind : v \in Range(validator_list)}

\* C26: once the registry of a configuration that configuration_check accepted is
\* built, no field's list of validators holds both a DIMENSIONS validator and an
\* ASPECT_RATIO validator, whichever entries declared the two kinds.
C26_ExclusionPerField ==
    pc \in {"attach", "done"} /\ exc = NoError =>
        \A n \in 1..Len(registry) :
            ~({type_dimensions, type_aspect_ratio} \subseteq KindsOf(registry[n].v))

\* add_validators raised while it was building
BuildRaised == pc = "raised" /\ raised_in = "add_validators"

\* a step that changes a validators list is a step of the attach loop, taken
\* with info, the draft registry and the registry built for the whole setting
ChangeOnlyAfterBuild ==
    validators' # validators =>
        /\ pc = "attach"
        /\ build_info(settings.items).exc = "none"
        /\ info = sort_info(build_info(settings.items).info)
        /\ draft_registry = build_draft_registry(info)
        /\ registry = build_registry(draft_registry)

\* C28: add_validators changes a validators list only once build_info, sort_info,
\* build_draft_registry and build_registry are done for the whole setting; when
\* resolving or compiling an entry raises, every field has the validators list
\* it had before.
C28_AttachAllOrNothing ==
    /\ [](BuildRaised => validators = InitialValidators)
    /\ [][ChangeOnlyAfterBuild]_vars

\* C28 witness: add_validators raised on the second entry of a setting whose
\* first entry resolves to fields, and no list was changed
C28_Witness ==
    /\ BuildRaised
    /\ Len(settings.items) = 2
    /\ entry_info(settings.items[1].key, settings.items[1].value, 1).exc = "none"
    /\ entry_info(settings.items[1].key, settings.items[1].value, 1).entry[1].fields # <<>>
    /\ entry_info(settings.items[2].key, settings.items[2].value, 2).exc # "none"
    /\ validators = InitialValidators

\* the fields some entry of the setting resolves to
ResolvedFields == UNION {Range(e.fields) : e \in Range(InfoEntries)}

\* C29: the keys of the built registry are the fields some entry resolves to, each
\* once; the list of a field holds one validator for each rule kind some entry
\* that resolves to the field declares and none of another kind, so no list holds
\* two validators of one kind or more validators than there are rule kinds.
C29_RegistryShape ==
    pc \in {"attach", "done"} =>
        /\ DictKeys(registry) = ResolvedFields
        /\ Len(registry) = Cardinality(ResolvedFields)
        /\ \A n \in 1..Len(registry) :
            /\ KindsOf(registry[n].v) = KindsDeclaredFor(registry[n].k)
            /\ Len(registry[n].v) = Cardinality(KindsDeclaredFor(registry[n].k))
            /\ Len(registry[n].v) <= Len(valid_types_strings)

\* C29 witness: the registry is built with one field whose two validators come from
\* two entries that declare one kind each, and one field with a single validator
C29_Witness ==
    /\ pc = "attach"
    /\ \E n, m \in 1..Len(registry) :
        /\ Len(registry[n].v) = 2
        /\ registry[n].v[1].src # registry[n].v[2].src
        /\ \A e \in Range(InfoEntries) : Len(e.mapping) = 1
        /\ Len(registry[m].v) = 1

(***************************************************************************)
(* The registry and the declaration order of the setting.                  *)
(***************************************************************************)
\* the registry add_validators builds from the items of a setting
RegistryFrom(items) ==
    build_registry(build_draft_registry(sort_info(build_info(items).info)))

\* a registry built from items as the set of its fields, each with its list of
\* validators, a validator being its kind, its rule and the key of its entry
RegistryView(reg, items) ==
    {[field |-> reg[n].k,
      list |-> [m \in 1..Len(reg[n].v) |->
                    [kind |-> reg[n].v[m].kind,
                     rule |-> reg[n].v[m].rule,
                     key |-> items[reg[n].v[m].src].key]]] : n \in 1..Len(reg)}

\* the items of the setting in every order
Reorderings(items) ==
    {[n \in 1..Len(items) |-> items[p[n]]] : p \in Permutations(1..Len(items))}

\* C25: the registry add_validators built from a setting whose keys all resolve is, as a set of
\* fields with the list of validators of each (kinds, entry of each kind, order),
\* the registry built from the same entries declared in any other order.
C25_OrderIndependent ==
    pc = "done" =>
        \A items \in Reorderings(settings.items) :
            /\ build_info(items).exc = "none"
            /\ RegistryView(RegistryFrom(items), items)
                = RegistryView(registry, settings.items)

\* C25 witness: the registry is built from three entries that resolve to one
\* field and declare one kind, the field-level entry first and the app-level last
C25_Witness ==
    /\ pc = "done"
    /\ Len(settings.items) = 3
    /\ \E f \in AllImageFields, k \in Range(valid_types_strings) :
        /\ \A n \in 1..3 :
            /\ f \in Range(get_fields(settings.items[n].key).fields)
            /\ k \in Range(settings.items[n].value.ks)
        /\ get_specificity(settings.items[1].key) = 3
        /\ get_specificity(settings.items[2].key) = 2
        /\ get_specificity(settings.items[3].key) = 1
        /\ \E m \in 1..Len(DictGet(registry, f)) :
            /\ DictGet(registry, f)[m].kind = k
            /\ DictGet(registry, f)[m].src = 1

=============================================================================
